---- MODULE Spec2Model ----
(***************************************************************************)
(* Verification model of the Xynoxa desktop client's synchronization       *)
(* engine: the worker loop with its debounce / periodic scheduling and the *)
(* filesystem watcher (src-tauri/src/sync.rs), the application state that  *)
(* owns the SyncHandle (src-tauri/src/lib.rs), and the pull / push phases  *)
(* of one pass over the local store (src-tauri/src/db.rs).                 *)
(*                                                                         *)
(* Fifteen specifications share the variables:                             *)
(*   SpecSched  SyncWorker::run with the watcher thread and wall-clock     *)
(*              time; the body of a pass is reduced to its filesystem      *)
(*              writes and its result.                                     *)
(*   SpecDrop   the same with an application that drops the handle.        *)
(*   SpecBusy   the same without ForceSync, under the fairness of the      *)
(*              worker thread, the watcher thread and the clock.           *)
(*   SpecApp    start_sync invocations racing with the auto-start thread.  *)
(*   Spec       scan_and_sync in detail: store, local tree, pulled events, *)
(*              remote calls.                                              *)
(*   SpecServer the same against a server that sends a group root, a file  *)
(*              without hash and a folder named .git.                      *)
(*   SpecMove   the same against a server that creates a file and moves it.*)
(*   SpecGroup  the same against a server that has a group folder and      *)
(*              moves a file into it.                                      *)
(*   SpecFolder the same against a server that creates a folder and moves  *)
(*              it.                                                        *)
(*   SpecBatch  the pull loop over whole responses, with a store whose     *)
(*              writes can fail.                                           *)
(*   SpecScan   the push phase with scan_local_files followed entry by     *)
(*              entry, against a user who writes and removes a file.       *)
(*   SpecAdopt  the push phase against a server whose event log is longer  *)
(*              than one page of the adoption scan.                        *)
(*   SpecPush   the push phase over a store left by an earlier run, with   *)
(*              remote deletes that can fail.                              *)
(*   SpecRoute  XynoxaClient::upload_file for sizes around its limits.     *)
(*   SpecChunk  XynoxaClient::upload_file_chunked, request by request.     *)
(***************************************************************************)
(* SpecSched, SpecApp and the specifications of scan_and_sync take the     *)
(* local store as not failing, except SpecBatch.                           *)
(***************************************************************************)
EXTENDS Integers, Sequences, FiniteSets, TLC

VARIABLES
    \* ---- SyncWorker::run (sync.rs:183-271) ----
    pc,                 \* position of the worker thread
    sync_active,        \* Arc<AtomicBool> shared with the watcher callback
    pending_sync,       \* local `pending_sync`
    last_fs_event,      \* local `last_fs_event`: None, or Some(seconds elapsed since it)
    timeout,            \* the Duration handed to recv_timeout, in seconds
    waited,             \* seconds spent in the current recv_timeout call
    receiver,           \* the mpsc channel of SyncCommand
    has_local_changes,  \* argument of the running scan_and_sync call
    \* ---- watcher thread (sync.rs:48-98) ----
    notifier,           \* OS notifications not yet handed to the callback
    \* ---- history variables of the scheduler ----
    pass_kind,          \* call site of the running / last pass
    active_passes,      \* number of scan_and_sync calls in progress
    fse_age,            \* None, or Some(seconds since the last FileSystemEvent was received)
    pending_at_timeout, \* value of pending_sync when recv_timeout last timed out
    last_result,        \* how the last finished pass ended, "none" while a pass runs
    \* ---- application state (lib.rs:20-23, 127-185, 301-331) ----
    config,             \* AppConfig: which of sync_path, auth_token, setup_completed are set
    sync_engine,        \* AppState.sync_engine: None or Some(handle)
    engine_lock,        \* holder of the sync_engine mutex, or None
    spawned,            \* number of SyncHandle::new calls (each spawns a worker thread)
    cmd_pc,             \* position of each start_sync invocation
    cmd_token,          \* whether the invocation was given a token argument
    cmd_handle,         \* the handle an invocation / the auto-start thread has created
    auto_pc,            \* position of the auto-start thread
    created_while_stored, \* history: a handle was created while another one was stored
    \* ---- scan_and_sync (sync.rs:273-671) and the store (db.rs) ----
    phase,              \* position inside scan_and_sync
    cursor,             \* globals.cursor of the store
    db,                 \* table files: path -> FileRecord
    fs,                 \* the local tree below the sync root
    cursor_read,        \* local `cursor` of the pull loop
    batch,              \* number of events of sync_response not yet applied
    next_cursor,        \* sync_response.next_cursor, once it has been read
    local_files,        \* result of scan_local_files
    del_todo,           \* records of db_records still to be visited by the deletion loop
    sorted_paths,       \* rest of sorted_paths in the create / update loop
    calls,              \* history: push operations of the running / last pass, in order
    scanned,            \* history: scan_local_files ran in the running / last pass
    user_changes,       \* number of changes the user has made to the tree
    new_paths,          \* history: the scanned paths without a record when the create loop began
    quiet_prev,         \* history: how the last finished pass went, "other" once the user changed the tree
    quiet_cur,          \* history: how the running pass goes
    download_failed,    \* history: a download_file call of the current batch returned Err
    last_applied,       \* history: the event the last step applied and whether its download failed
    response,           \* sync_response where the whole value is followed, else None
    walk,               \* entries WalkDir has listed and scan_local_files has not visited yet
    scan_seen,          \* history: what the server answered to the adoption scan of the last step
    \* ---- XynoxaClient::upload_file (api.rs:348-577) ----
    upload              \* the upload_file call that is followed request by request, or None

schedVars == << pc, sync_active, pending_sync, last_fs_event, timeout, waited,
                receiver, has_local_changes, notifier, pass_kind, active_passes,
                fse_age, pending_at_timeout, last_result >>

appVars == << config, sync_engine, engine_lock, spawned, cmd_pc, cmd_token,
              cmd_handle, auto_pc, created_while_stored >>

passVars == << phase, cursor, db, fs, cursor_read, batch, next_cursor,
               local_files, del_todo, sorted_paths, calls, scanned,
               user_changes, new_paths, quiet_prev, quiet_cur, download_failed,
               last_applied, response, walk, scan_seen, upload >>

vars == << schedVars, appVars, passVars >>

SchedOnly == UNCHANGED << appVars, passVars >>
AppOnly == UNCHANGED << schedVars, passVars >>

(***************************************************************************)
(* Option<T>                                                               *)
(***************************************************************************)
None == << >>
Some(x) == << x >>
IsSome(o) == o # << >>
Unwrap(o) == o[1]

Min(a, b) == IF a <= b THEN a ELSE b

(***************************************************************************)
(* Program constants (seconds) and model bounds                            *)
(***************************************************************************)
DEBOUNCE_DURATION == 4
PERIODIC_SYNC_INTERVAL == 20

MaxChannel == 2     \* commands queued in the channel
MaxNotify == 1      \* notifications queued in the notifier thread

(***************************************************************************)
(* Watcher callback: paths and the relevance filter                        *)
(***************************************************************************)
\* A notified path: inside the watched root (rel = its components below the
\* root, << >> for the root itself) or outside it.
InRoot(rel) == [inside |-> TRUE, rel |-> rel]

IgnoredNames == { ".git", "node_modules", ".xynoxa.db" }

\* sync.rs:64-87, one path of event.paths
PathIsRelevant(p) ==
    IF p.inside /\ p.rel = << >> THEN FALSE
    ELSE IF p.inside
         THEN \A i \in 1..Len(p.rel) : p.rel[i] \notin IgnoredNames
         ELSE FALSE

\* sync.rs:64 `event.paths.iter().any(..)`
IsRelevant(paths) == \E p \in paths : PathIsRelevant(p)

RawEvent(origin, kind, paths) == [origin |-> origin, kind |-> kind, paths |-> paths]

\* Notifications caused by the user's activity under the root.
UserEvents ==
    { RawEvent("user", "modify", { InRoot(<< "a.txt" >>) }),
      RawEvent("user", "access", { InRoot(<< "a.txt" >>) }),
      RawEvent("user", "modify", { InRoot(<< >>), InRoot(<< ".git", "index" >>) }) }

\* Notifications caused by the writes of a pass: a downloaded or renamed
\* file, and the store file, which lives in the root.
WorkerEvents ==
    { RawEvent("worker", "modify", { InRoot(<< "a.txt" >>) }),
      RawEvent("worker", "modify", { InRoot(<< ".xynoxa.db" >>) }) }

ForceSync == [cmd |-> "ForceSync"]
FileSystemEvent(e) == [cmd |-> "FileSystemEvent", event |-> e]

(***************************************************************************)
(* SyncWorker::run                                                         *)
(***************************************************************************)
InPass == pc \in { "scan", "returned" }

\* sync_active.store(true); self.scan_and_sync(full) is entered
BeginPass(kind, full) ==
    /\ sync_active' = TRUE
    /\ pc' = "scan"
    /\ pass_kind' = kind
    /\ has_local_changes' = full
    /\ active_passes' = active_passes + 1
    /\ last_result' = "none"

\* sync.rs:186-188
InitialSync ==
    /\ SchedOnly
    /\ pc = "start"
    /\ BeginPass("initial", TRUE)
    /\ UNCHANGED << pending_sync, last_fs_event, timeout, waited, receiver,
                    notifier, fse_age, pending_at_timeout >>

\* A filesystem write made by the running pass (download, mkdir, rename,
\* store update); the OS queues a notification for the watcher thread.
ScanWrite ==
    /\ SchedOnly
    /\ pc = "scan"
    /\ Len(notifier) < MaxNotify
    /\ \E e \in WorkerEvents : notifier' = Append(notifier, e)
    /\ UNCHANGED << pc, sync_active, pending_sync, last_fs_event, timeout, waited,
                    receiver, has_local_changes, pass_kind, active_passes,
                    fse_age, pending_at_timeout, last_result >>

\* scan_and_sync returns Ok or Err to run.  A full pass also returns Ok when
\* an upload or a folder creation failed: the error is logged and the loop
\* goes on (sync.rs:637-663); "unpushed" is that Ok.
ScanReturn ==
    /\ SchedOnly
    /\ pc = "scan"
    /\ \E r \in { "ok", "err" } \cup (IF has_local_changes THEN { "unpushed" } ELSE {}) :
          last_result' = r
    /\ pc' = "returned"
    /\ active_passes' = active_passes - 1
    /\ UNCHANGED << sync_active, pending_sync, last_fs_event, timeout, waited,
                    receiver, has_local_changes, notifier, pass_kind,
                    fse_age, pending_at_timeout >>

ClearActiveSkippedOnError ==
    /\ SchedOnly
    /\ pc = "returned"
    /\ sync_active' = (last_result = "err")
    /\ pc' = "loop"
    /\ UNCHANGED << pending_sync, last_fs_event, timeout, waited, receiver,
                    has_local_changes, notifier, pass_kind, active_passes,
                    fse_age, pending_at_timeout, last_result >>

\* the error, if any, is logged; sync_active.store(false)  (sync.rs:192,231,252,261)
ClearActive ==
    /\ SchedOnly
    /\ pc = "returned"
    /\ sync_active' = FALSE
    /\ pc' = "loop"
    /\ UNCHANGED << pending_sync, last_fs_event, timeout, waited, receiver,
                    has_local_changes, notifier, pass_kind, active_passes,
                    fse_age, pending_at_timeout, last_result >>

\* sync.rs:204-218
RecvTimeoutFor(pending, last) ==
    IF pending
    THEN IF IsSome(last)
         THEN IF Unwrap(last) >= DEBOUNCE_DURATION THEN 0
              ELSE DEBOUNCE_DURATION - Unwrap(last)
         ELSE DEBOUNCE_DURATION
    ELSE PERIODIC_SYNC_INTERVAL

\* loop top: compute the timeout and call recv_timeout (sync.rs:201-220)
ComputeTimeout ==
    /\ SchedOnly
    /\ pc = "loop"
    /\ timeout' = RecvTimeoutFor(pending_sync, last_fs_event)
    /\ waited' = 0
    /\ pc' = "recv"
    /\ UNCHANGED << sync_active, pending_sync, last_fs_event, receiver,
                    has_local_changes, notifier, pass_kind, active_passes,
                    fse_age, pending_at_timeout, last_result >>

RecvForceSyncWhileScanning ==
    /\ SchedOnly
    /\ pc \in { "recv", "scan" }
    /\ receiver # << >>
    /\ Head(receiver).cmd = "ForceSync"
    /\ receiver' = Tail(receiver)
    /\ pending_sync' = FALSE
    /\ last_fs_event' = None
    /\ BeginPass("force", TRUE)
    /\ UNCHANGED << timeout, waited, notifier, fse_age, pending_at_timeout >>

\* Ok(SyncCommand::ForceSync)  (sync.rs:222-227)
RecvForceSync ==
    /\ SchedOnly
    /\ pc = "recv"
    /\ receiver # << >>
    /\ Head(receiver).cmd = "ForceSync"
    /\ receiver' = Tail(receiver)
    /\ pending_sync' = FALSE
    /\ last_fs_event' = None
    /\ BeginPass("force", TRUE)
    /\ UNCHANGED << timeout, waited, notifier, fse_age, pending_at_timeout >>

DebounceClockKeepsFirst(last) == IF IsSome(last) THEN last ELSE Some(0)

\* `last_fs_event = Some(Instant::now())`  (sync.rs:236)
DebounceClock(last) == Some(0)

\* Ok(SyncCommand::FileSystemEvent(_))  (sync.rs:233-239)
RecvFileSystemEvent ==
    /\ SchedOnly
    /\ pc = "recv"
    /\ receiver # << >>
    /\ Head(receiver).cmd = "FileSystemEvent"
    /\ receiver' = Tail(receiver)
    /\ last_fs_event' = DebounceClock(last_fs_event)
    /\ pending_sync' = TRUE
    /\ fse_age' = Some(0)
    /\ pc' = "loop"
    /\ UNCHANGED << sync_active, timeout, waited, has_local_changes, notifier,
                    pass_kind, active_passes, pending_at_timeout, last_result >>

\* The senders of the command channel: SyncHandle.sender, which lives as
\* long as the handle is stored, and tx_for_watcher, which the watcher's
\* callback owns; the watcher is moved into the worker and lives as long as
\* the worker does  (sync.rs:24, 40, 91, 104-122)
HandleSender == IF IsSome(sync_engine) THEN 1 ELSE 0

WatcherSender == IF pc \in { "ended", "panicked" } THEN 0 ELSE 1

Senders == HandleSender + WatcherSender

\* Err(RecvTimeoutError::Disconnected): the channel is empty and no sender is
\* left; run breaks out of its loop  (sync.rs:264-267).  The worker's own
\* watcher is a sender, so this step is enabled in no state in which the
\* worker waits, and it is part of no next-state relation.
RecvDisconnected ==
    /\ SchedOnly
    /\ pc = "recv" /\ receiver = << >> /\ Senders = 0
    /\ pc' = "ended"
    /\ UNCHANGED << sync_active, pending_sync, last_fs_event, timeout, waited, receiver,
                    has_local_changes, notifier, pass_kind, active_passes,
                    fse_age, pending_at_timeout, last_result >>

\* recv_timeout reports Timeout: nothing was received for `timeout` seconds
\* and a sender is left
TimedOut == pc = "recv" /\ receiver = << >> /\ waited >= timeout /\ Senders > 0

TimeoutPeriodicFull ==
    /\ SchedOnly
    /\ TimedOut
    /\ ~pending_sync
    /\ pending_at_timeout' = pending_sync
    /\ BeginPass("periodic", TRUE)
    /\ UNCHANGED << pending_sync, last_fs_event, timeout, waited, receiver,
                    notifier, fse_age >>

\* Err(Timeout), pending_sync  (sync.rs:242-248)
TimeoutPending ==
    /\ SchedOnly
    /\ TimedOut
    /\ pending_sync
    /\ pending_at_timeout' = pending_sync
    /\ pending_sync' = FALSE
    /\ last_fs_event' = None
    /\ BeginPass("event", TRUE)
    /\ UNCHANGED << timeout, waited, receiver, notifier, fse_age >>

\* Err(Timeout), nothing pending  (sync.rs:253-257)
TimeoutPeriodic ==
    /\ SchedOnly
    /\ TimedOut
    /\ ~pending_sync
    /\ pending_at_timeout' = pending_sync
    /\ BeginPass("periodic", FALSE)
    /\ UNCHANGED << pending_sync, last_fs_event, timeout, waited, receiver,
                    notifier, fse_age >>

(***************************************************************************)
(* Time: one second passes.  Instants are kept as the time elapsed since   *)
(* them, saturated where the code no longer distinguishes the values.      *)
(***************************************************************************)
Aged(o, cap) == IF IsSome(o) THEN Some(Min(Unwrap(o) + 1, cap)) ELSE None

Tick ==
    /\ SchedOnly
    /\ last_fs_event' = Aged(last_fs_event, DEBOUNCE_DURATION)
    /\ fse_age' = Aged(fse_age, DEBOUNCE_DURATION)
    /\ waited' = IF pc = "recv" THEN Min(waited + 1, PERIODIC_SYNC_INTERVAL) ELSE waited
    /\ UNCHANGED << pc, sync_active, pending_sync, timeout, receiver,
                    has_local_changes, notifier, pass_kind, active_passes,
                    pending_at_timeout, last_result >>

(***************************************************************************)
(* The watcher thread and the owner of the handle                          *)
(***************************************************************************)
\* The user touches the tree; the OS queues a notification.
UserActivity ==
    /\ SchedOnly
    /\ Len(notifier) < MaxNotify
    /\ \E e \in UserEvents : notifier' = Append(notifier, e)
    /\ UNCHANGED << pc, sync_active, pending_sync, last_fs_event, timeout, waited,
                    receiver, has_local_changes, pass_kind, active_passes,
                    fse_age, pending_at_timeout, last_result >>

WatcherUnchanged ==
    UNCHANGED << pc, sync_active, pending_sync, last_fs_event, timeout, waited,
                 has_local_changes, pass_kind, active_passes,
                 fse_age, pending_at_timeout, last_result >>

\* sync.rs:52-54
WatcherMuted ==
    /\ SchedOnly
    /\ notifier # << >>
    /\ sync_active
    /\ notifier' = Tail(notifier)
    /\ UNCHANGED receiver
    /\ WatcherUnchanged

\* sync.rs:57-59
WatcherAccess ==
    /\ SchedOnly
    /\ notifier # << >>
    /\ ~sync_active
    /\ Head(notifier).kind = "access"
    /\ notifier' = Tail(notifier)
    /\ UNCHANGED receiver
    /\ WatcherUnchanged

\* sync.rs:92-94
WatcherIrrelevant ==
    /\ SchedOnly
    /\ notifier # << >>
    /\ ~sync_active
    /\ Head(notifier).kind # "access"
    /\ ~IsRelevant(Head(notifier).paths)
    /\ notifier' = Tail(notifier)
    /\ UNCHANGED receiver
    /\ WatcherUnchanged

\* sync.rs:89-91
WatcherForward ==
    /\ SchedOnly
    /\ notifier # << >>
    /\ ~sync_active
    /\ Head(notifier).kind # "access"
    /\ IsRelevant(Head(notifier).paths)
    /\ Len(receiver) < MaxChannel
    /\ receiver' = Append(receiver, FileSystemEvent(Head(notifier)))
    /\ notifier' = Tail(notifier)
    /\ WatcherUnchanged

\* a holder of SyncHandle.sender sends SyncCommand::ForceSync (sync.rs:18,139)
ForceSyncRequest ==
    /\ SchedOnly
    /\ Len(receiver) < MaxChannel
    /\ receiver' = Append(receiver, ForceSync)
    /\ UNCHANGED << pc, sync_active, pending_sync, last_fs_event, timeout, waited,
                    has_local_changes, notifier, pass_kind, active_passes,
                    fse_age, pending_at_timeout, last_result >>

(***************************************************************************)
(* Strings and paths.  A String is a sequence of characters; Bytes lists   *)
(* the characters in use in increasing byte value, which is the order of   *)
(* String::cmp.                                                            *)
(***************************************************************************)
Bytes == << ".", "/", "_", "a", "b", "c", "d", "e", "f", "g", "h", "i", "j",
            "k", "l", "m", "n", "o", "p", "q", "r", "s", "t", "u", "v", "w",
            "x", "y", "z" >>

ByteRank(c) == CHOOSE i \in 1..Len(Bytes) : Bytes[i] = c

RECURSIVE StrLessReversed(_, _)
StrLessReversed(a, b) ==
    IF b = << >> THEN a # << >>
    ELSE IF a = << >> THEN FALSE
    ELSE IF Head(a) = Head(b) THEN StrLessReversed(Tail(a), Tail(b))
    ELSE ByteRank(Head(b)) < ByteRank(Head(a))

\* a < b in the order Vec<String>::sort uses (sync.rs:619)
RECURSIVE StrLess(_, _)
StrLess(a, b) ==
    IF a = << >> THEN b # << >>
    ELSE IF b = << >> THEN FALSE
    ELSE IF Head(a) = Head(b) THEN StrLess(Tail(a), Tail(b))
    ELSE ByteRank(Head(a)) < ByteRank(Head(b))

\* sorted_paths.sort()  (sync.rs:618-619)
RECURSIVE SortPaths(_)
SortPaths(S) ==
    IF S = {} THEN << >>
    ELSE LET m == CHOOSE x \in S : \A y \in S \ { x } : StrLess(x, y)
         IN << m >> \o SortPaths(S \ { m })

StartsWith(s, prefix) ==
    Len(prefix) <= Len(s) /\ SubSeq(s, 1, Len(prefix)) = prefix

\* str::strip_prefix(..).unwrap_or(s)  (sync.rs:324)
StripPrefixOr(s, prefix) ==
    IF StartsWith(s, prefix) THEN SubSeq(s, Len(prefix) + 1, Len(s)) ELSE s

LastIndexOf(s, c) ==
    LET at == { i \in 1..Len(s) : s[i] = c }
    IN IF at = {} THEN 0 ELSE CHOOSE i \in at : \A j \in at : j <= i

\* Path::parent of a relative path, as a string ("" when it has one component)
Parent(path) == SubSeq(path, 1, LastIndexOf(path, "/") - 1)

\* Path::file_name
FileName(path) == SubSeq(path, LastIndexOf(path, "/") + 1, Len(path))

\* Path::join of a relative directory and a name
Join(dir, name) == IF dir = << >> THEN name ELSE dir \o << "/" >> \o name

\* p is q or lies below q
Under(p, q) == p = q \/ StartsWith(p, q \o << "/" >>)

\* The paths of the model's tree: p/q/r/file.txt with its directories.
PathP == << "p" >>
PathQ == Join(PathP, << "q" >>)
PathR == Join(PathQ, << "r" >>)
PathFile == Join(PathR, << "f", "i", "l", "e", ".", "t", "x", "t" >>)

\* Paths the server names in its events: a group folder g, a file a, the
\* place g/n the file is moved to, and .git
PathG == << "g" >>
PathA == << "a" >>
PathN == Join(PathG, << "n" >>)
PathDotGit == << ".", "g", "i", "t" >>

UserDirs == { PathP, PathQ, PathR }
UserFiles == { PathFile }

(***************************************************************************)
(* The local tree: fs maps each existing path below the root to            *)
(* [kind, content, mtime]; the root itself always exists.                  *)
(***************************************************************************)
MaxMtime == 1

Contents == { "A", "B" }
Mtimes == 1..MaxMtime

Dir == [kind |-> "dir", content |-> "", mtime |-> 0]
File(content, mtime) == [kind |-> "file", content |-> content, mtime |-> mtime]

\* SHA-256 of a file's bytes, lowercase hex (sync.rs:1023-1028)
Sha256(content) ==
    CASE content = "A" -> "559aead08264d5795d3909718cdd05abd49572e84fe55590eef31a88a08fdffd"
      [] content = "B" -> "df7e70e5021544f4834bbee64a9e3789febc4be81470df629cad6ddb03320a5c"
      [] OTHER -> "e3b0c44298fc1c149afbf4c8996fb92427ae41e4649b934ca495991b7852b855"

DIRECTORY == "directory"

IsDir(f, p) == p = << >> \/ (p \in DOMAIN f /\ f[p].kind = "dir")
IsFile(f, p) == p \in DOMAIN f /\ f[p].kind = "file"

\* compute_hash(path).unwrap_or_default()  (sync.rs:366,699,762,983)
ComputeHash(f, p) == IF IsFile(f, p) THEN Sha256(f[p].content) ELSE ""

\* the proper prefixes of p that are paths, and p itself
RECURSIVE SelfAndAncestors(_)
SelfAndAncestors(p) ==
    IF p = << >> THEN {} ELSE { p } \cup SelfAndAncestors(Parent(p))

\* fs::create_dir_all: fails when a component exists and is no directory
CreateDirAll(f, p) ==
    LET need == SelfAndAncestors(p)
    IN IF \E a \in need : IsFile(f, a)
       THEN [ok |-> FALSE, fs |-> f]
       ELSE [ok |-> TRUE,
             fs |-> [q \in DOMAIN f \cup need |-> IF q \in DOMAIN f THEN f[q] ELSE Dir]]

\* fs::remove_dir_all / fs::remove_file
RemoveTree(f, p) == [q \in { x \in DOMAIN f : ~Under(x, p) } |-> f[q]]

\* tokio::fs::write
WriteFile(f, p, content, mtime) ==
    [q \in DOMAIN f \cup { p } |-> IF q = p THEN File(content, mtime) ELSE f[q]]

(***************************************************************************)
(* The store (db.rs)                                                       *)
(***************************************************************************)
FileRecord(path, id, hash, modified_at, group_folder_id, is_group_root) ==
    [path |-> path, id |-> id, hash |-> hash, modified_at |-> modified_at,
     server_version |-> 0, group_folder_id |-> group_folder_id,
     is_group_root |-> is_group_root]

\* Database::get_file  (db.rs:102-123)
get_file(d, path) == IF path \in DOMAIN d THEN Some(d[path]) ELSE None

insert_ignored(d, rec) == d

\* Database::insert_or_update: INSERT OR REPLACE on the primary key path  (db.rs:85-100)
insert_or_update(d, rec) ==
    [q \in DOMAIN d \cup { rec.path } |-> IF q = rec.path THEN rec ELSE d[q]]

\* Database::delete_file  (db.rs:171-175)
delete_file(d, path) == [q \in DOMAIN d \ { path } |-> d[q]]

\* Database::get_file_by_id: the rows with that id; the query returns the
\* first of them (db.rs:125-146)
get_file_by_id(d, id) ==
    LET rows == { d[q] : q \in { x \in DOMAIN d : d[x].id = Some(id) } }
    IN IF rows = {} THEN { None } ELSE { Some(r) : r \in rows }

\* Database::get_all_files  (db.rs:177-199): the rows as a Vec.  The query
\* has no ORDER BY; the rows are listed by path here, and the loop that
\* reads them (sync.rs:591-614) handles each row independently of the others.
RECURSIVE RowsOf(_, _)
RowsOf(d, paths) ==
    IF paths = << >> THEN << >> ELSE << d[Head(paths)] >> \o RowsOf(d, Tail(paths))

get_all_files(d) == RowsOf(d, SortPaths(DOMAIN d))

\* The parent lookup shared by download_file, create_remote_folder and
\* upload_file (sync.rs:742-754, 798-822, 952-971): whether the parent is
\* the root, else whether it has a record, the record's id and the group
\* folder id a child inherits.
ParentLookup(d, path) ==
    LET parent_str == Parent(path)
        rec == get_file(d, parent_str)
    IN IF parent_str = << >>
       THEN [root |-> TRUE, found |-> FALSE, id |-> None, group |-> None]
       ELSE IF IsSome(rec)
            THEN [root |-> FALSE, found |-> TRUE, id |-> Unwrap(rec).id,
                  group |-> IF Unwrap(rec).is_group_root THEN Unwrap(rec).id
                            ELSE Unwrap(rec).group_folder_id]
            ELSE [root |-> FALSE, found |-> FALSE, id |-> None, group |-> None]

(***************************************************************************)
(* Pulled events (api.rs:18-52) and the responses of sync.pull             *)
(***************************************************************************)
MaxBatch == 2       \* events in one response
MaxUserChanges == 2 \* changes the user makes to the tree
MaxCursor == 2      \* largest cursor value the server names

\* The identifier the server gives the entity at a path: the `id` of the
\* responses of folders.create and of an upload (api.rs:327-346, 348-432) and
\* the entity_id of the events about it.  One identifier per path.
ServerId(path) ==
    CASE path = PathP -> 101
      [] path = PathQ -> 102
      [] path = PathR -> 103
      [] path = PathFile -> 104
      [] path = PathA -> 106
      [] path = PathG -> 107
      [] path = PathN -> 108
      [] OTHER -> 105

FileData(path, name, hash, parent_id, folder_id, group_folder_id) ==
    [path |-> path, name |-> name, storage_path |-> None, folder_id |-> folder_id,
     group_folder_id |-> group_folder_id, parent_id |-> parent_id, hash |-> hash]

SyncEvent(action, entity_type, entity_id, data) ==
    [owner_id |-> None, action |-> action, entity_type |-> entity_type,
     entity_id |-> entity_id, data |-> data]

\* folder p was created on the server
EvFolderP ==
    SyncEvent("create", "folder", ServerId(PathP),
              Some(FileData(Some(PathP), Some(<< "p" >>), None, None, None, None)))

\* file p/q/r/file.txt has content "A" on the server
EvFileUpdate ==
    SyncEvent("update", "file", ServerId(PathFile),
              Some(FileData(Some(PathFile), Some(FileName(PathFile)),
                            Some(Sha256("A")), None, None, None)))

\* folder p was deleted on the server
EvDeleteP == SyncEvent("delete", "folder", ServerId(PathP), None)

EventUniverse == { EvFolderP, EvFileUpdate, EvDeleteP }

\* the root of a group folder: group_folder_id is its own id, no parent_id
EvGroupRoot ==
    SyncEvent("create", "group_folder", ServerId(PathG),
              Some(FileData(Some(PathG), Some(PathG), None, None, None,
                            Some(ServerId(PathG)))))

\* file a has content "A" on the server
EvFileA ==
    SyncEvent("create", "file", ServerId(PathA),
              Some(FileData(Some(PathA), Some(PathA), Some(Sha256("A")), None, None, None)))

\* the same, in a response that leaves `hash` out (FileData.hash is an Option)
EvFileNoHash ==
    SyncEvent("create", "file", ServerId(PathA),
              Some(FileData(Some(PathA), Some(PathA), None, None, None, None)))

\* file a was moved to g/n on the server; its content is "A"
EvMoveA ==
    SyncEvent("move", "file", ServerId(PathA),
              Some(FileData(Some(PathN), Some(FileName(PathN)), Some(Sha256("A")),
                            None, None, Some(ServerId(PathG)))))

\* a folder the server calls .git
EvFolderDotGit ==
    SyncEvent("create", "folder", ServerId(PathDotGit),
              Some(FileData(Some(PathDotGit), Some(PathDotGit), None, None, None, None)))

\* what SpecServer's server sends, and what SpecMove's does
ServerEvents == { EvGroupRoot, EvFileNoHash, EvFolderDotGit }

MoveEvents == { EvFileA, EvMoveA }

Batches == UNION { [1..n -> EventUniverse] : n \in 0..MaxBatch }

\* Ok(SyncResponse) of sync_pull, for any cursor: the server is not trusted
PullResponses == [events : Batches, next_cursor : 0..MaxCursor]

PullError == [error |-> TRUE]
IsPullError(res) == "error" \in DOMAIN res

\* sync.rs:317-331 and 456-467
EffectivePath(event, data) ==
    IF IsSome(data.path) THEN Unwrap(data.path)
    ELSE IF IsSome(data.storage_path)
         THEN IF IsSome(event.owner_id)
              THEN StripPrefixOr(Unwrap(data.storage_path),
                                 Unwrap(event.owner_id) \o << "/" >>)
              ELSE Unwrap(data.storage_path)
         ELSE IF IsSome(data.name) THEN Unwrap(data.name) ELSE << >>

IsFolderType(entity_type) == entity_type \in { "folder", "group", "group_folder" }

\* sync.rs:346-351 and 525-530
IsGroupRoot(data, entity_id) ==
    data.group_folder_id = Some(entity_id) /\ data.parent_id = None

\* Path::with_extension  (sync.rs:399)
WithExtension(path, ext) ==
    LET name == FileName(path)
        dot == LastIndexOf(name, ".")
        stem == IF dot > 1 THEN SubSeq(name, 1, dot - 1) ELSE name
    IN Join(Parent(path), stem \o << "." >> \o ext)

ConflictBackup == << "c", "o", "n", "f", "l", "i", "c", "t", "_", "b", "a", "c", "k", "u", "p" >>

\* fs::rename of a file
RenameFile(f, from, to) ==
    IF ~IsFile(f, from) \/ IsDir(f, to) \/ ~IsDir(f, Parent(to)) THEN f
    ELSE [q \in (DOMAIN f \ { from }) \cup { to } |-> IF q = to THEN f[from] ELSE f[q]]

\* fs::rename (rename(2)) of a file or a directory with what lies below it:
\* [ok, fs]
Rename(f, from, to) ==
    LET moved(q) == to \o SubSeq(q, Len(from) + 1, Len(q))
        below == { q \in DOMAIN f : Under(q, from) }
        kept == DOMAIN f \ below
        fails == \/ from \notin DOMAIN f
                 \/ ~IsDir(f, Parent(to))
                 \/ (IsFile(f, from) /\ IsDir(f, to))
                 \/ (IsDir(f, from) /\ IsFile(f, to))
                 \/ (IsDir(f, from) /\ \E q \in DOMAIN f : q # to /\ Under(q, to))
                 \/ (to # from /\ Under(to, from))
    IN IF fails THEN [ok |-> FALSE, fs |-> f]
       ELSE IF from = to THEN [ok |-> TRUE, fs |-> f]
       ELSE [ok |-> TRUE,
             fs |-> [q \in (kept \ { to }) \cup { moved(b) : b \in below } |->
                       IF \E b \in below : moved(b) = q
                       THEN f[CHOOSE b \in below : moved(b) = q]
                       ELSE f[q]]]

\* fs::remove_file: removes a file, fails on a directory
RemoveFile(f, p) == IF IsFile(f, p) THEN RemoveTree(f, p) ELSE f

(***************************************************************************)
(* The state scan_and_sync works on, passed through its helpers:           *)
(* [db, fs, calls, failed, download_err].  `failed` records that a push    *)
(* helper returned Err, `download_err` that download_file did.             *)
(***************************************************************************)
Work == [db |-> db, fs |-> fs, calls |-> calls, failed |-> FALSE,
         download_err |-> FALSE, scan |-> None]

\* Outcomes of a download: the request fails, or the server sends content
DownloadOutcomes ==
    { [ok |-> FALSE, content |-> "", mtime |-> 0] }
    \cup { [ok |-> TRUE, content |-> c, mtime |-> m] : c \in Contents, m \in Mtimes }

\* whether download_file returns Ok: the parent directories could be made,
\* the request succeeded and the content could be written
DownloadOk(st, path, out) ==
    LET mk == CreateDirAll(st.fs, Parent(path))
    IN mk.ok /\ out.ok /\ ~IsDir(mk.fs, path)

\* SyncWorker::download_file  (sync.rs:740-787, api.rs:579-613)
DownloadFile(st, file_id, path, existing, out) ==
    LET par == ParentLookup(st.db, path)
        mk == CreateDirAll(st.fs, Parent(path))
        group == IF IsSome(existing) /\ IsSome(Unwrap(existing).group_folder_id)
                 THEN Unwrap(existing).group_folder_id
                 ELSE par.group
    IN IF ~mk.ok THEN [st EXCEPT !.download_err = TRUE]
       ELSE IF ~out.ok \/ IsDir(mk.fs, path)
       THEN [st EXCEPT !.fs = mk.fs, !.download_err = TRUE]
       ELSE LET written == WriteFile(mk.fs, path, out.content, out.mtime)
            IN [st EXCEPT
                  !.fs = written,
                  !.db = insert_or_update(st.db,
                             FileRecord(path, Some(file_id), ComputeHash(written, path),
                                        written[path].mtime, group, FALSE))]

\* "create" | "update" | "copy"  (sync.rs:311-430)
ApplyCreateUpdate(st, event, existing, out) ==
    IF ~IsSome(event.data) THEN st
    ELSE
    LET data == Unwrap(event.data)
        file_id == event.entity_id
        path == EffectivePath(event, data)
    IN IF path = << >> THEN st
       ELSE IF IsFolderType(event.entity_type)
       THEN [st EXCEPT
               !.fs = CreateDirAll(st.fs, path).fs,
               !.db = insert_or_update(st.db,
                          FileRecord(path, Some(file_id), DIRECTORY, 0,
                                     data.group_folder_id,
                                     IsGroupRoot(data, event.entity_id)))]
       ELSE IF event.entity_type = "file"
       THEN LET remote_hash == IF IsSome(data.hash) THEN Unwrap(data.hash) ELSE ""
                local_hash == ComputeHash(st.fs, path)
                db_rec == get_file(st.db, path)
                db_mtime == IF IsSome(db_rec) THEN Unwrap(db_rec).modified_at ELSE 0
            IN IF local_hash # remote_hash
               THEN IF local_hash = ""
                    THEN DownloadFile(st, file_id, path, existing, out)
                    ELSE IF st.fs[path].mtime > db_mtime
                         THEN DownloadFile(
                                  [st EXCEPT !.fs = RenameFile(st.fs, path,
                                                        WithExtension(path, ConflictBackup))],
                                  file_id, path, existing, out)
                         ELSE DownloadFile(st, file_id, path, existing, out)
               ELSE [st EXCEPT
                       !.db = insert_or_update(st.db,
                                  FileRecord(path, Some(file_id), remote_hash, 0,
                                             data.group_folder_id, FALSE))]
       ELSE st

\* "delete"  (sync.rs:431-451)
ApplyDelete(st, event, existing) ==
    IF ~IsSome(existing) THEN st
    ELSE LET record == Unwrap(existing)
         IN [st EXCEPT !.fs = RemoveTree(st.fs, record.path),
                       !.db = delete_file(st.db, record.path)]

ApplyMoveAsCreate(st, event, existing, out) ==
    ApplyCreateUpdate(st, [event EXCEPT !.action = "create"], existing, out)

\* "move"  (sync.rs:452-564).  After the old record is deleted, the lookup by
\* id inside download_file (sync.rs:741) finds another row with that id or
\* none.
ApplyMove(st, event, existing, out) ==
    IF ~IsSome(event.data) THEN st
    ELSE
    LET data == Unwrap(event.data)
        file_id == event.entity_id
        new_path == EffectivePath(event, data)
    IN IF new_path = << >> THEN st
       ELSE IF ~IsSome(existing)
       THEN DownloadFile(st, file_id, new_path, existing, out)
       ELSE
       LET old_record == Unwrap(existing)
           made == [st EXCEPT !.fs = CreateDirAll(st.fs, Parent(new_path)).fs]
           renamed == Rename(made.fs, old_record.path, new_path)
       IN IF ~renamed.ok
          THEN LET got == DownloadFile(made, file_id, new_path, existing, out)
               IN IF DownloadOk(made, new_path, out)
                  THEN [got EXCEPT !.fs = RemoveFile(got.fs, old_record.path),
                                   !.db = delete_file(got.db, old_record.path)]
                  ELSE got
          ELSE
          LET at == [made EXCEPT !.fs = renamed.fs]
              new_hash == ComputeHash(at.fs, new_path)
              expected_hash == IF IsSome(data.hash) THEN Unwrap(data.hash)
                               ELSE old_record.hash
              file_size == IF IsFile(at.fs, new_path) /\ at.fs[new_path].content = ""
                           THEN 0 ELSE 1
          IN IF file_size = 0 \/ (new_hash # expected_hash /\ expected_hash # "")
             THEN LET cleared == [at EXCEPT !.fs = RemoveFile(at.fs, new_path),
                                            !.db = delete_file(at.db, old_record.path)]
                  IN DownloadFile(cleared, file_id, new_path,
                                  CHOOSE e \in get_file_by_id(cleared.db, file_id) : TRUE,
                                  out)
             ELSE [at EXCEPT
                     !.db = insert_or_update(
                                delete_file(at.db, old_record.path),
                                FileRecord(new_path, Some(file_id), new_hash,
                                           at.fs[new_path].mtime,
                                           data.group_folder_id,
                                           IsGroupRoot(data, file_id)))]

\* one iteration of `for event in sync_response.events`  (sync.rs:302-567)
ApplyEvent(st, event, existing, out) ==
    CASE event.action \in { "create", "update", "copy" } ->
             ApplyCreateUpdate(st, event, existing, out)
      [] event.action = "delete" -> ApplyDelete(st, event, existing)
      [] event.action = "move" -> ApplyMove(st, event, existing, out)
      [] OTHER -> st

(***************************************************************************)
(* Push helpers.  An entry of `calls` is one invocation of upload_file,    *)
(* create_remote_folder or a remote delete: sent tells whether a mutating  *)
(* request went to the server, ok whether the helper returned Ok, id the   *)
(* identifier it attached, parent the folder id the request carried.       *)
(***************************************************************************)
Call(op, path, parent, sent, ok, id) ==
    [op |-> op, path |-> path, parent |-> parent, sent |-> sent, ok |-> ok, id |-> id]

Logged(st, call) ==
    [st EXCEPT !.calls = Append(st.calls, call),
               !.failed = st.failed \/ ~call.ok]

\* the event of a response that find_remote_folder_id accepts  (sync.rs:903-925)
AdoptionMatch(event, target_name, target_parent) ==
    /\ IsFolderType(event.entity_type)
    /\ event.action \in { "create", "update", "copy" }
    /\ IsSome(event.data)
    /\ Unwrap(event.data).name = Some(target_name)
    /\ (IF IsSome(Unwrap(event.data).folder_id)
        THEN Unwrap(event.data).folder_id
        ELSE Unwrap(event.data).parent_id) = target_parent

\* `for event in &res.events` of find_remote_folder_id: the entity id of the
\* first event that matches  (sync.rs:889-927)
FindRemoteFolderId(res, target_name, target_parent) ==
    LET hits == { i \in 1..Len(res.events) :
                    AdoptionMatch(res.events[i], target_name, target_parent) }
    IN IF hits = {} THEN None
       ELSE Some(res.events[CHOOSE i \in hits : \A j \in hits : i <= j].entity_id)

\* `res.events.len() < 50`  (sync.rs:931)
SCAN_PAGE == 50

NoEvents == [events |-> << >>, next_cursor |-> 0]

\* SyncWorker::find_remote_folder_id  (sync.rs:874-937).  `answers` are the
\* responses the server gives to the successive sync_pull calls of the scan
\* and `call` is the number of those made; a failed sync_pull makes the scan
\* return Err, which gives no id either.  After the for loop `cursor` (cur)
\* holds res.next_cursor, which is what the end-of-stream test compares it
\* with.
RECURSIVE find_remote_folder_id(_, _, _, _)
find_remote_folder_id(answers, call, target_name, target_parent) ==
    LET res == IF call < Len(answers) THEN answers[call + 1] ELSE NoEvents
    IN IF IsPullError(res) THEN None
       ELSE IF res.events = << >> THEN None
       ELSE LET found == FindRemoteFolderId(res, target_name, target_parent)
                cur == res.next_cursor
            IN IF IsSome(found) THEN found
               ELSE IF cur = res.next_cursor \/ Len(res.events) < SCAN_PAGE
               THEN None
               ELSE find_remote_folder_id(answers, call + 1, target_name, target_parent)

\* What the server answers to the sync_pull calls of the adoption scan: an
\* error or a response each
ScanResponses ==
    { << PullError >> } \cup
    { << r >> : r \in { q \in PullResponses : Len(q.events) <= 1 /\ q.next_cursor = 0 } }

\* Outcomes of a push call: Ok, or Err; after a failed folders.create the
\* adoption scan pulls
NoScan == [ok |-> TRUE, scan |-> << PullError >>]
CreateOutcomes == { NoScan } \cup { [ok |-> FALSE, scan |-> r] : r \in ScanResponses }

\* SyncWorker::create_remote_folder  (sync.rs:789-871)
CreateRemoteFolder(st, path, out) ==
    LET name == FileName(path)
        par == ParentLookup(st.db, path)
        parent_id == par.id
        record(id) == FileRecord(path, Some(id), DIRECTORY, 0, par.group, FALSE)
    IN IF ~par.root /\ ~par.found
       THEN Logged(st, Call("create_folder", path, None, FALSE, FALSE, None))
       ELSE IF out.ok
       THEN Logged([st EXCEPT !.db = insert_or_update(st.db, record(ServerId(path)))],
                   Call("create_folder", path, parent_id, TRUE, TRUE, Some(ServerId(path))))
       ELSE LET found == find_remote_folder_id(out.scan, 0, name, parent_id)
                seen == [st EXCEPT !.scan = Some(out.scan)]
            IN IF IsSome(found)
               THEN Logged([seen EXCEPT !.db = insert_or_update(st.db, record(Unwrap(found)))],
                           Call("create_folder", path, parent_id, TRUE, TRUE, found))
               ELSE Logged(seen, Call("create_folder", path, parent_id, TRUE, FALSE, None))

UploadFileNoMtime(st, path, ok) ==
    LET existing_record == get_file(st.db, path)
        existing_id == IF IsSome(existing_record) THEN Unwrap(existing_record).id ELSE None
        par == ParentLookup(st.db, path)
        parent_folder_id == par.id
        entry_id == IF IsSome(existing_id) THEN Unwrap(existing_id) ELSE ServerId(path)
    IN IF IsDir(st.fs, path) THEN st
       ELSE IF ~IsFile(st.fs, path)
       THEN Logged(st, Call("upload", path, parent_folder_id, FALSE, FALSE, None))
       ELSE IF ~ok
       THEN Logged(st, Call("upload", path, parent_folder_id, TRUE, FALSE, None))
       ELSE Logged([st EXCEPT
                      !.db = insert_or_update(st.db,
                                 FileRecord(path, Some(entry_id), ComputeHash(st.fs, path),
                                            0, par.group, FALSE))],
                   Call("upload", path, parent_folder_id, TRUE, TRUE, Some(entry_id)))

UploadFileDangling(st, path, ok) ==
    LET existing_record == get_file(st.db, path)
        existing_id == IF IsSome(existing_record) THEN Unwrap(existing_record).id ELSE None
        par == ParentLookup(st.db, path)
        parent_folder_id == par.id
        entry_id == IF IsSome(existing_id) THEN Unwrap(existing_id) ELSE ServerId(path)
    IN IF IsDir(st.fs, path) THEN st
       ELSE IF ~IsFile(st.fs, path)
       THEN Logged(st, Call("upload", path, parent_folder_id, FALSE, FALSE, None))
       ELSE IF ~ok
       THEN Logged([st EXCEPT
                      !.db = insert_or_update(st.db,
                                 FileRecord(path, None, ComputeHash(st.fs, path),
                                            st.fs[path].mtime, par.group, FALSE))],
                   Call("upload", path, parent_folder_id, TRUE, FALSE, None))
       ELSE Logged([st EXCEPT
                      !.db = insert_or_update(st.db,
                                 FileRecord(path, Some(entry_id), ComputeHash(st.fs, path),
                                            st.fs[path].mtime, par.group, FALSE))],
                   Call("upload", path, parent_folder_id, TRUE, TRUE, Some(entry_id)))

\* SyncWorker::upload_file  (sync.rs:939-1005, api.rs:348-432)
UploadFile(st, path, ok) ==
    LET existing_record == get_file(st.db, path)
        existing_id == IF IsSome(existing_record) THEN Unwrap(existing_record).id ELSE None
        par == ParentLookup(st.db, path)
        parent_folder_id == par.id
        entry_id == IF IsSome(existing_id) THEN Unwrap(existing_id) ELSE ServerId(path)
    IN IF IsDir(st.fs, path) THEN st
       ELSE IF ~IsFile(st.fs, path)
       THEN Logged(st, Call("upload", path, parent_folder_id, FALSE, FALSE, None))
       ELSE IF ~ok
       THEN Logged(st, Call("upload", path, parent_folder_id, TRUE, FALSE, None))
       ELSE Logged([st EXCEPT
                      !.db = insert_or_update(st.db,
                                 FileRecord(path, Some(entry_id), ComputeHash(st.fs, path),
                                            st.fs[path].mtime, par.group, FALSE))],
                   Call("upload", path, parent_folder_id, TRUE, TRUE, Some(entry_id)))

(***************************************************************************)
(* scan_and_sync, step by step                                             *)
(***************************************************************************)
schedRest == << pending_sync, last_fs_event, timeout, waited, receiver, notifier,
                fse_age, pending_at_timeout >>

passCall == << pc, sync_active, has_local_changes, pass_kind, active_passes, last_result >>

PassOnly == UNCHANGED << schedRest, appVars >>

\* is_ignored  (sync.rs:1030-1036)
is_ignored(file_name) ==
    file_name \in { << ".", "g", "i", "t" >>,
                    << "n", "o", "d", "e", "_", "m", "o", "d", "u", "l", "e", "s" >>,
                    << ".", "x", "y", "n", "o", "x", "a", ".", "d", "b" >> }

\* SyncWorker::scan_local_files  (sync.rs:676-738)
scan_local_files(f, d) ==
    LET walked == { p \in DOMAIN f :
                      \A a \in SelfAndAncestors(p) : ~is_ignored(FileName(a)) }
        existing(p) == get_file(d, p)
        group(p) == IF IsSome(existing(p)) THEN Unwrap(existing(p)).group_folder_id ELSE None
    IN [p \in walked |->
          IF f[p].kind = "file"
          THEN FileRecord(p, None, ComputeHash(f, p), f[p].mtime, group(p), FALSE)
          ELSE FileRecord(p, None, DIRECTORY, 0, group(p),
                          IF IsSome(existing(p)) THEN Unwrap(existing(p)).is_group_root
                          ELSE FALSE)]

\* The helpers' result becomes the state; an upload or folder creation that
\* returned Err is remembered for the pass.
Commit(st) ==
    /\ db' = st.db
    /\ fs' = st.fs
    /\ calls' = st.calls
    /\ quiet_cur' = IF st.failed /\ quiet_cur = "clean" THEN "failed" ELSE quiet_cur
    /\ download_failed' = (download_failed \/ st.download_err)
    /\ scan_seen' = st.scan

\* run calls scan_and_sync(full): the initial sync and ForceSync are full,
\* a timeout is full exactly when a change is pending  (sync.rs:186-262)
StartPass ==
    /\ PassOnly
    /\ pc \in { "start", "loop" }
    /\ \E full \in BOOLEAN :
          /\ pc = "start" => full
          /\ BeginPass(IF pc = "start" THEN "initial" ELSE IF full THEN "force" ELSE "periodic",
                       full)
          /\ quiet_cur' = IF full THEN "clean" ELSE "other"
    /\ phase' = "pull"
    /\ download_failed' = FALSE
    /\ last_applied' = None
    /\ response' = None
    /\ walk' = {}
    /\ scan_seen' = None
    /\ upload' = None
    /\ UNCHANGED << user_changes, cursor, db, fs, cursor_read, batch, next_cursor,
                    local_files, del_todo, sorted_paths, new_paths, calls, scanned,
                    quiet_prev >>

\* scan_and_sync returns r and leaves the tree as f; its locals are dropped
ReturnWith(r, f) ==
    /\ phase' = "done"
    /\ pc' = "returned"
    /\ last_result' = r
    /\ active_passes' = active_passes - 1
    /\ quiet_prev' = IF r = "ok" THEN quiet_cur ELSE "other"
    /\ quiet_cur' = "other"
    /\ cursor_read' = 0
    /\ next_cursor' = 0
    /\ batch' = 0
    /\ local_files' = << >>
    /\ del_todo' = << >>
    /\ sorted_paths' = << >>
    /\ new_paths' = {}
    /\ calls' = << >>
    /\ scanned' = FALSE
    /\ download_failed' = FALSE
    /\ last_applied' = None
    /\ response' = None
    /\ walk' = {}
    /\ scan_seen' = None
    /\ upload' = None
    /\ fs' = f
    /\ UNCHANGED << sync_active, has_local_changes, pass_kind, cursor, db,
                    user_changes >>

Return(r) == ReturnWith(r, fs)

PullFailedGoesOn ==
    /\ PassOnly
    /\ pc = "scan" /\ phase = "pull"
    /\ cursor_read' = cursor
    /\ phase' = "scan"
    /\ UNCHANGED << download_failed, last_applied, response, walk, scan_seen, upload, user_changes, passCall, cursor, db, fs, batch, next_cursor, local_files,
                    del_todo, sorted_paths, new_paths, calls, scanned, quiet_prev, quiet_cur >>

\* get_cursor, then sync_pull fails  (sync.rs:281-288)
PullFailed ==
    /\ PassOnly
    /\ pc = "scan" /\ phase = "pull"
    /\ Return("err")

PushGuardAlwaysPush == TRUE

\* `if !has_local_changes { return Ok(()) }`  (sync.rs:581)
PushGuard == has_local_changes

\* sync_pull returns no events  (sync.rs:291-296), then the push guard
\* (sync.rs:581-585)
PullEmptyPullOnly ==
    /\ PassOnly
    /\ pc = "scan" /\ phase = "pull"
    /\ ~PushGuard
    /\ Return("ok")

PullEmptyFull ==
    /\ PassOnly
    /\ pc = "scan" /\ phase = "pull"
    /\ PushGuard
    /\ cursor_read' = cursor
    /\ phase' = "scan"
    /\ UNCHANGED << download_failed, last_applied, response, walk, scan_seen, upload, user_changes, passCall, cursor, db, fs, batch, next_cursor, local_files,
                    del_todo, sorted_paths, new_paths, calls, scanned, quiet_prev, quiet_cur >>

\* sync_pull returns a batch of events  (sync.rs:298-302).  The response is
\* any member of PullResponses; each of its fields is drawn when the code
\* first reads it: the number of events here, every event in ApplyNext and
\* next_cursor in UpdateCursor.
PullBatch ==
    /\ PassOnly
    /\ pc = "scan" /\ phase = "pull"
    /\ cursor_read' = cursor
    /\ \E n \in { Len(res.events) : res \in PullResponses } \ { 0 } : batch' = n
    /\ phase' = "apply"
    /\ quiet_cur' = "other"
    /\ download_failed' = FALSE
    /\ last_applied' = None
    /\ response' = None
    /\ walk' = {}
    /\ scan_seen' = None
    /\ upload' = None
    /\ UNCHANGED << user_changes, passCall, cursor, db, fs, next_cursor, local_files,
                    del_todo, sorted_paths, new_paths, calls, scanned, quiet_prev >>

\* the next event of the batch, one of `events`, is applied  (sync.rs:302-567)
ApplyFrom(events) ==
    /\ PassOnly
    /\ pc = "scan" /\ phase = "apply" /\ batch > 0
    /\ \E event \in events :
          \E existing \in get_file_by_id(db, event.entity_id), out \in DownloadOutcomes :
             LET st == ApplyEvent(Work, event, existing, out)
             IN /\ Commit(st)
                /\ last_applied' = Some([event |-> event,
                                         download_err |-> st.download_err])
    /\ batch' = batch - 1
    /\ UNCHANGED << user_changes, passCall, phase, cursor, cursor_read, next_cursor, local_files,
                    del_todo, sorted_paths, new_paths, scanned, quiet_prev, response, walk, upload >>

ApplyNext == ApplyFrom(EventUniverse)

ApplyServerEvent == ApplyFrom(ServerEvents)

ApplyMoveEvent == ApplyFrom(MoveEvents)

CursorAfterBatchUnguarded(cur, read, next) == next

\* sync.rs:569-574
CursorAfterBatch(cur, read, next) == IF next > read THEN next ELSE cur

UpdateCursor ==
    /\ PassOnly
    /\ pc = "scan" /\ phase = "apply" /\ batch = 0
    /\ \E n \in { res.next_cursor : res \in PullResponses } : next_cursor' = n
    /\ cursor' = CursorAfterBatch(cursor, cursor_read, next_cursor')
    /\ phase' = "pull"
    /\ download_failed' = FALSE
    /\ last_applied' = None
    /\ response' = None
    /\ walk' = {}
    /\ scan_seen' = None
    /\ upload' = None
    /\ UNCHANGED << user_changes, passCall, db, fs, cursor_read, batch, local_files,
                    del_todo, sorted_paths, new_paths, calls, scanned, quiet_prev, quiet_cur >>

(***************************************************************************)
(* The pull loop with the whole of sync_response in view: the events in    *)
(* the order the server gave them, and the `?` of the store calls.         *)
(***************************************************************************)
BatchEvents == { EvFolderP, EvDeleteP }

BatchResponses ==
    [events : UNION { [1..n -> BatchEvents] : n \in 1..MaxBatch },
     next_cursor : 0..MaxCursor]

IterateReversed(events, done) == events[Len(events) - done]

\* `for event in sync_response.events`: the element that follows `done`
\* iterations  (sync.rs:302)
Iterate(events, done) == events[done + 1]

\* the event the loop is at
CurrentEvent ==
    LET events == Unwrap(response).events
    IN Iterate(events, Len(events) - batch)

\* sync_pull returns a response with events  (sync.rs:283-302)
PullWhole ==
    /\ PassOnly
    /\ pc = "scan" /\ phase = "pull"
    /\ cursor_read' = cursor
    /\ \E res \in BatchResponses :
          /\ response' = Some(res)
          /\ batch' = Len(res.events)
    /\ phase' = "apply"
    /\ quiet_cur' = "other"
    /\ download_failed' = FALSE
    /\ last_applied' = None
    /\ UNCHANGED << user_changes, passCall, cursor, db, fs, next_cursor, local_files,
                    del_todo, sorted_paths, new_paths, calls, scanned, quiet_prev, walk, scan_seen, upload >>

\* one iteration of the loop over sync_response.events  (sync.rs:302-567)
ApplyInOrder ==
    /\ IsSome(response) /\ batch > 0
    /\ ApplyFrom({ CurrentEvent })

\* the iteration reaches an insert_or_update whose result is propagated
\* with `?`  (sync.rs:341-361, 414-426)
UpsertReached(f, event) ==
    /\ event.action \in { "create", "update", "copy" }
    /\ IsSome(event.data)
    /\ LET data == Unwrap(event.data)
           path == EffectivePath(event, data)
       IN /\ path # << >>
          /\ \/ IsFolderType(event.entity_type)
             \/ /\ event.entity_type = "file"
                /\ ComputeHash(f, path) = (IF IsSome(data.hash) THEN Unwrap(data.hash) ELSE "")

\* the tree when that insert_or_update is called: the folder has been
\* created  (sync.rs:343-345)
TreeAtUpsert(f, event) ==
    IF IsFolderType(event.entity_type)
    THEN CreateDirAll(f, EffectivePath(event, Unwrap(event.data))).fs
    ELSE f

\* insert_or_update returns Err inside the loop: scan_and_sync returns Err
\* at once  (sync.rs:361, 426)
ApplyAbort ==
    /\ PassOnly
    /\ pc = "scan" /\ phase = "apply" /\ batch > 0
    /\ IsSome(response)
    /\ UpsertReached(fs, CurrentEvent)
    /\ ReturnWith("err", TreeAtUpsert(fs, CurrentEvent))

\* the batch is done and next_cursor is stored if it is larger
\* (sync.rs:569-574)
UpdateCursorOf ==
    /\ PassOnly
    /\ pc = "scan" /\ phase = "apply" /\ batch = 0
    /\ IsSome(response)
    /\ next_cursor' = Unwrap(response).next_cursor
    /\ cursor' = CursorAfterBatch(cursor, cursor_read, next_cursor')
    /\ phase' = "pull"
    /\ download_failed' = FALSE
    /\ last_applied' = None
    /\ response' = None
    /\ walk' = {}
    /\ scan_seen' = None
    /\ upload' = None
    /\ UNCHANGED << user_changes, passCall, db, fs, cursor_read, batch, local_files,
                    del_todo, sorted_paths, new_paths, calls, scanned, quiet_prev, quiet_cur >>

\* set_cursor returns Err  (sync.rs:570-573)
SetCursorFailed ==
    /\ PassOnly
    /\ pc = "scan" /\ phase = "apply" /\ batch = 0
    /\ IsSome(response)
    /\ Unwrap(response).next_cursor > cursor_read
    /\ Return("err")

\* sync.rs:587-588
ScanLocal ==
    /\ PassOnly
    /\ pc = "scan" /\ phase = "scan"
    /\ local_files' = scan_local_files(fs, db)
    /\ del_todo' = get_all_files(db)
    /\ scanned' = TRUE
    /\ phase' = "deletions"
    /\ UNCHANGED << download_failed, last_applied, response, walk, scan_seen, upload, user_changes, passCall, cursor, db, fs, cursor_read, batch, next_cursor,
                    sorted_paths, new_paths, calls, quiet_prev, quiet_cur >>

PushDeletionNoRestore(st, db_rec, ok) ==
    IF db_rec.path \in DOMAIN local_files THEN st
    ELSE LET sent == IF ~IsSome(db_rec.id) THEN st
                     ELSE [st EXCEPT !.calls =
                              Append(st.calls,
                                     Call(IF db_rec.hash = DIRECTORY THEN "delete_folder"
                                          ELSE "soft_delete_file",
                                          db_rec.path, None, TRUE, ok, db_rec.id))]
         IN [sent EXCEPT !.db = delete_file(sent.db, db_rec.path)]

PushDeletionKeepsOnError(st, db_rec, ok) ==
    IF db_rec.path \in DOMAIN local_files THEN st
    ELSE IF IsSome(db_rec.id) /\ db_rec.hash = DIRECTORY /\ db_rec.is_group_root
    THEN [st EXCEPT !.fs = CreateDirAll(st.fs, db_rec.path).fs]
    ELSE LET sent == IF ~IsSome(db_rec.id) THEN st
                     ELSE [st EXCEPT !.calls =
                              Append(st.calls,
                                     Call(IF db_rec.hash = DIRECTORY THEN "delete_folder"
                                          ELSE "soft_delete_file",
                                          db_rec.path, None, TRUE, ok, db_rec.id))]
         IN IF IsSome(db_rec.id) /\ ~ok THEN sent
            ELSE [sent EXCEPT !.db = delete_file(sent.db, db_rec.path)]

\* one iteration of `for db_rec in &db_records`  (sync.rs:591-614); ok is the
\* result of the remote delete, which is only logged
PushDeletion(st, db_rec, ok) ==
    IF db_rec.path \in DOMAIN local_files THEN st
    ELSE IF IsSome(db_rec.id) /\ db_rec.hash = DIRECTORY /\ db_rec.is_group_root
    THEN [st EXCEPT !.fs = CreateDirAll(st.fs, db_rec.path).fs]
    ELSE LET sent == IF ~IsSome(db_rec.id) THEN st
                     ELSE [st EXCEPT !.calls =
                              Append(st.calls,
                                     Call(IF db_rec.hash = DIRECTORY THEN "delete_folder"
                                          ELSE "soft_delete_file",
                                          db_rec.path, None, TRUE, ok, db_rec.id))]
         IN [sent EXCEPT !.db = delete_file(sent.db, db_rec.path)]

\* the deletion step for the next row of db_records; `results` are the
\* results the remote delete can have
CheckDeletionsWith(results) ==
    /\ PassOnly
    /\ pc = "scan" /\ phase = "deletions" /\ del_todo # << >>
    /\ \E ok \in results : Commit(PushDeletion(Work, Head(del_todo), ok))
    /\ del_todo' = Tail(del_todo)
    /\ UNCHANGED << last_applied, response, walk, upload, user_changes, passCall, phase, cursor, cursor_read, batch, next_cursor, local_files,
                    sorted_paths, new_paths, scanned, quiet_prev >>

CheckDeletions == CheckDeletionsWith({ TRUE })

\* sync.rs:618-619
SortKeys ==
    /\ PassOnly
    /\ pc = "scan" /\ phase = "deletions" /\ del_todo = << >>
    /\ sorted_paths' = SortPaths(DOMAIN local_files)
    /\ new_paths' = DOMAIN local_files \ DOMAIN db
    /\ phase' = "creates"
    /\ UNCHANGED << download_failed, last_applied, response, walk, scan_seen, upload, user_changes, passCall, cursor, db, fs, cursor_read, batch, next_cursor,
                    local_files, del_todo, calls, scanned, quiet_prev, quiet_cur >>

\* one iteration of `for path in sorted_paths`  (sync.rs:621-666); o1 and o2
\* are the outcomes of the first and the second remote call it makes
PushPath(st, path, o1, o2) ==
    LET record == local_files[path]
        db_entry == get_file(st.db, path)
    IN IF IsSome(db_entry)
       THEN LET db_rec == Unwrap(db_entry)
                changed == IF record.hash # db_rec.hash /\ record.hash # DIRECTORY
                           THEN UploadFile(st, path, o1.ok)
                           ELSE st
            IN IF ~IsSome(db_rec.id)
               THEN IF record.hash = DIRECTORY
                    THEN CreateRemoteFolder(changed, path, o2)
                    ELSE UploadFile(changed, path, o2.ok)
               ELSE changed
       ELSE IF record.hash = DIRECTORY
            THEN CreateRemoteFolder(st, path, o1)
            ELSE UploadFile(st, path, o1.ok)

CheckPathWith(outcomes) ==
    /\ PassOnly
    /\ pc = "scan" /\ phase = "creates" /\ sorted_paths # << >>
    /\ \E o1 \in outcomes :
          \E o2 \in IF Len(PushPath(Work, Head(sorted_paths), o1, NoScan).calls) > Len(calls) + 1
                     THEN outcomes ELSE { NoScan } :
             Commit(PushPath(Work, Head(sorted_paths), o1, o2))
    /\ sorted_paths' = Tail(sorted_paths)
    /\ UNCHANGED << last_applied, response, walk, upload, user_changes, passCall, phase, cursor, cursor_read, batch, next_cursor, local_files,
                    del_todo, new_paths, scanned, quiet_prev >>

CheckPath == CheckPathWith(CreateOutcomes)

\* sync.rs:668-669
PushDone ==
    /\ PassOnly
    /\ pc = "scan" /\ phase = "creates" /\ sorted_paths = << >>
    /\ Return("ok")

(***************************************************************************)
(* The user works in the sync root at any time                             *)
(***************************************************************************)
UserChange(f) ==
    /\ PassOnly
    /\ user_changes < MaxUserChanges
    /\ user_changes' = user_changes + 1
    /\ fs' = f
    /\ quiet_prev' = "other"
    /\ quiet_cur' = "other"
    /\ UNCHANGED << download_failed, last_applied, response, walk, scan_seen, upload, passCall, phase, cursor, db, cursor_read, batch, next_cursor,
                    local_files, del_todo, sorted_paths, new_paths, calls, scanned >>

\* mkdir -p
UserMkdir ==
    \E d \in UserDirs :
        /\ d \notin DOMAIN fs
        /\ CreateDirAll(fs, d).ok
        /\ UserChange(CreateDirAll(fs, d).fs)

UserWrite ==
    \E p \in UserFiles, c \in Contents, m \in Mtimes :
        /\ IsDir(fs, Parent(p))
        /\ ~IsDir(fs, p)
        /\ ~(IsFile(fs, p) /\ fs[p] = File(c, m))
        /\ UserChange(WriteFile(fs, p, c, m))

UserRemove ==
    \E p \in DOMAIN fs : UserChange(RemoveTree(fs, p))

PassIdle ==
    /\ phase = "done"
    /\ cursor = 0
    /\ db = << >>
    /\ fs = << >>
    /\ cursor_read = 0
    /\ batch = 0
    /\ next_cursor = 0
    /\ local_files = << >>
    /\ del_todo = << >>
    /\ sorted_paths = << >>
    /\ new_paths = {}
    /\ calls = << >>
    /\ scanned = FALSE
    /\ user_changes = 0
    /\ quiet_prev = "other"
    /\ quiet_cur = "other"
    /\ download_failed = FALSE
    /\ last_applied = None
    /\ response = None
    /\ walk = {}
    /\ scan_seen = None
    /\ upload = None

(***************************************************************************)
(* Application state: start_sync and the auto-start thread (lib.rs)        *)
(***************************************************************************)
Invocations == { "cmd1", "cmd2" }
AutoStart == "auto"

\* SyncHandle::new (sync.rs:23-128): creates the channel and the watcher and
\* spawns the worker thread; the handles are numbered in creation order.
SyncHandleNew(who) ==
    /\ spawned' = spawned + 1
    /\ cmd_handle' = [cmd_handle EXCEPT ![who] = Some(spawned + 1)]
    /\ created_while_stored' = (created_while_stored \/ IsSome(sync_engine))

\* the UI invokes the start_sync command
StartSyncInvoke(t) ==
    /\ AppOnly
    /\ cmd_pc[t] = "idle"
    /\ \E tok \in BOOLEAN : cmd_token' = [cmd_token EXCEPT ![t] = tok]
    /\ cmd_pc' = [cmd_pc EXCEPT ![t] = "config"]
    /\ UNCHANGED << config, sync_engine, engine_lock, spawned, cmd_handle,
                    auto_pc, created_while_stored >>

\* lib.rs:129-147: read the configuration; Err("No sync path configured")
StartSyncConfig(t) ==
    /\ AppOnly
    /\ cmd_pc[t] = "config"
    /\ cmd_pc' = [cmd_pc EXCEPT ![t] = IF config.sync_path THEN "token" ELSE "idle"]
    /\ UNCHANGED << config, sync_engine, engine_lock, spawned, cmd_token,
                    cmd_handle, auto_pc, created_while_stored >>

\* lib.rs:149-166: argument, else configuration, else keyring; Err("Not logged in")
StartSyncToken(t) ==
    /\ AppOnly
    /\ cmd_pc[t] = "token"
    /\ cmd_pc' = [cmd_pc EXCEPT ![t] =
                    IF cmd_token[t] \/ config.auth_token THEN "lock" ELSE "idle"]
    /\ UNCHANGED << config, sync_engine, engine_lock, spawned, cmd_token,
                    cmd_handle, auto_pc, created_while_stored >>

\* lib.rs:169-172: state.sync_engine.lock()
StartSyncLock(t) ==
    /\ AppOnly
    /\ cmd_pc[t] = "lock"
    /\ engine_lock = None
    /\ engine_lock' = Some(t)
    /\ cmd_pc' = [cmd_pc EXCEPT ![t] = "check"]
    /\ UNCHANGED << config, sync_engine, spawned, cmd_token, cmd_handle,
                    auto_pc, created_while_stored >>

\* lib.rs:175-178: "Sync already running"; the guard is dropped on return
StartSyncAlreadyRunning(t) ==
    /\ AppOnly
    /\ cmd_pc[t] = "check"
    /\ IsSome(sync_engine)
    /\ engine_lock' = None
    /\ cmd_pc' = [cmd_pc EXCEPT ![t] = "idle"]
    /\ UNCHANGED << config, sync_engine, spawned, cmd_token, cmd_handle,
                    auto_pc, created_while_stored >>

\* lib.rs:175-181: no engine stored: SyncHandle::new under the lock
StartSyncCreate(t) ==
    /\ AppOnly
    /\ cmd_pc[t] = "check"
    /\ ~IsSome(sync_engine)
    /\ SyncHandleNew(t)
    /\ cmd_pc' = [cmd_pc EXCEPT ![t] = "store"]
    /\ UNCHANGED << config, sync_engine, engine_lock, cmd_token, auto_pc >>

\* lib.rs:183-184: *engine_guard = Some(handle); the guard is dropped on return
StartSyncStore(t) ==
    /\ AppOnly
    /\ cmd_pc[t] = "store"
    /\ sync_engine' = cmd_handle[t]
    /\ engine_lock' = None
    /\ cmd_handle' = [cmd_handle EXCEPT ![t] = None]
    /\ cmd_pc' = [cmd_pc EXCEPT ![t] = "idle"]
    /\ UNCHANGED << config, spawned, cmd_token, auto_pc, created_while_stored >>

\* lib.rs:307-325: the thread spawned at setup reads the configuration
AutoStartConfig ==
    /\ AppOnly
    /\ auto_pc = "config"
    /\ auto_pc' = "create"
    /\ UNCHANGED << config, sync_engine, engine_lock, spawned, cmd_pc, cmd_token,
                    cmd_handle, created_while_stored >>

\* lib.rs:328: SyncHandle::new, the sync_engine mutex not held
AutoStartCreate ==
    /\ AppOnly
    /\ auto_pc = "create"
    /\ SyncHandleNew(AutoStart)
    /\ auto_pc' = "store"
    /\ UNCHANGED << config, sync_engine, engine_lock, cmd_pc, cmd_token >>

\* lib.rs:329: *state.sync_engine.lock().unwrap() = Some(handle)
AutoStartStore ==
    /\ AppOnly
    /\ auto_pc = "store"
    /\ engine_lock = None
    /\ sync_engine' = cmd_handle[AutoStart]
    /\ cmd_handle' = [cmd_handle EXCEPT ![AutoStart] = None]
    /\ auto_pc' = "done"
    /\ UNCHANGED << config, engine_lock, spawned, cmd_pc, cmd_token,
                    created_while_stored >>

\* lib.rs:205-208 and 272-301: the state after setup; the auto-start thread
\* exists when setup is completed and a token was found.
AppAfterSetup ==
    /\ config \in { c \in [sync_path : BOOLEAN, auth_token : BOOLEAN,
                             setup_completed : BOOLEAN] :
                       c.setup_completed => c.sync_path }
    /\ sync_engine = None
    /\ engine_lock = None
    /\ spawned = 0
    /\ cmd_pc = [t \in Invocations |-> "idle"]
    /\ cmd_token = [t \in Invocations |-> FALSE]
    /\ cmd_handle = [t \in Invocations \cup { AutoStart } |-> None]
    /\ auto_pc = IF config.setup_completed /\ config.auth_token THEN "config" ELSE "none"
    /\ created_while_stored = FALSE

NextApp ==
    \/ \E t \in Invocations :
          \/ StartSyncInvoke(t)
          \/ StartSyncConfig(t)
          \/ StartSyncToken(t)
          \/ StartSyncLock(t)
          \/ StartSyncAlreadyRunning(t)
          \/ StartSyncCreate(t)
          \/ StartSyncStore(t)
    \/ AutoStartConfig
    \/ AutoStartCreate
    \/ AutoStartStore

\* the application state before anything is started, for the other specifications
AppIdle ==
    /\ config = [sync_path |-> TRUE, auth_token |-> TRUE, setup_completed |-> TRUE]
    /\ sync_engine = Some(1)
    /\ engine_lock = None
    /\ spawned = 1
    /\ cmd_pc = [t \in Invocations |-> "idle"]
    /\ cmd_token = [t \in Invocations |-> FALSE]
    /\ cmd_handle = [t \in Invocations \cup { AutoStart } |-> None]
    /\ auto_pc = "done"
    /\ created_while_stored = FALSE

(***************************************************************************)
(* SpecSched                                                               *)
(***************************************************************************)
\* SyncWorker::run is entered  (sync.rs:183-196)
SchedIdle ==
    /\ pc = "start"
    /\ sync_active = FALSE
    /\ pending_sync = FALSE
    /\ last_fs_event = None
    /\ timeout = 0
    /\ waited = 0
    /\ receiver = << >>
    /\ has_local_changes = FALSE
    /\ notifier = << >>
    /\ pass_kind = "none"
    /\ active_passes = 0
    /\ fse_age = None
    /\ pending_at_timeout = FALSE
    /\ last_result = "none"

InitSched == SchedIdle /\ AppIdle /\ PassIdle

NextSched ==
    \/ InitialSync
    \/ ScanWrite
    \/ ScanReturn
    \/ ClearActive
    \/ ComputeTimeout
    \/ RecvForceSync
    \/ RecvFileSystemEvent
    \/ TimeoutPending
    \/ TimeoutPeriodic
    \/ Tick
    \/ UserActivity
    \/ WatcherMuted
    \/ WatcherAccess
    \/ WatcherIrrelevant
    \/ WatcherForward
    \/ ForceSyncRequest

SpecSched == InitSched /\ [][NextSched]_vars

(***************************************************************************)
(* SpecDrop: SpecSched with an application that drops the stored handle    *)
(* (the Option<SyncHandle> of AppState is overwritten or dropped,          *)
(* lib.rs:21, 329); ForceSync is sent through the handle while it lives.   *)
(***************************************************************************)
DropHandle ==
    /\ IsSome(sync_engine)
    /\ sync_engine' = None
    /\ UNCHANGED << schedVars, passVars, config, engine_lock, spawned, cmd_pc,
                    cmd_token, cmd_handle, auto_pc, created_while_stored >>

ForceSyncHeld == IsSome(sync_engine) /\ ForceSyncRequest

InitDrop == SchedIdle /\ AppIdle /\ PassIdle

NextDrop ==
    \/ InitialSync
    \/ ScanReturn
    \/ ClearActive
    \/ ComputeTimeout
    \/ RecvForceSync
    \/ TimeoutPeriodic
    \/ Tick
    \/ ForceSyncHeld
    \/ DropHandle

SpecDrop == InitDrop /\ [][NextDrop]_vars

(***************************************************************************)
(* SpecBusy: SpecSched without ForceSync, with its liveness assumptions:   *)
(* the worker thread and the watcher thread keep running and time passes.  *)
(***************************************************************************)
WorkerStep ==
    \/ InitialSync
    \/ ScanReturn
    \/ ClearActive
    \/ ComputeTimeout
    \/ RecvFileSystemEvent
    \/ TimeoutPending
    \/ TimeoutPeriodic

WatcherStep ==
    \/ WatcherMuted
    \/ WatcherAccess
    \/ WatcherIrrelevant
    \/ WatcherForward

NextBusy ==
    \/ InitialSync
    \/ ScanReturn
    \/ ClearActive
    \/ ComputeTimeout
    \/ RecvFileSystemEvent
    \/ TimeoutPending
    \/ TimeoutPeriodic
    \/ Tick
    \/ UserActivity
    \/ WatcherMuted
    \/ WatcherAccess
    \/ WatcherIrrelevant
    \/ WatcherForward

SpecBusy ==
    /\ InitSched /\ [][NextBusy]_vars
    /\ WF_vars(WorkerStep) /\ WF_vars(WatcherStep) /\ WF_vars(Tick)

(***************************************************************************)
(* SpecApp                                                                 *)
(***************************************************************************)
InitApp == AppAfterSetup /\ SchedIdle /\ PassIdle

SpecApp == InitApp /\ [][NextApp]_vars

(***************************************************************************)
(* Spec: passes of scan_and_sync over the store and the local tree, with   *)
(* the user changing the tree at any time                                  *)
(***************************************************************************)
Init == SchedIdle /\ AppIdle /\ PassIdle

Next ==
    \/ StartPass
    \/ PullFailed
    \/ PullEmptyPullOnly
    \/ PullEmptyFull
    \/ PullBatch
    \/ ApplyNext
    \/ UpdateCursor
    \/ ScanLocal
    \/ CheckDeletions
    \/ SortKeys
    \/ CheckPath
    \/ PushDone
    \/ ClearActive
    \/ UserMkdir
    \/ UserWrite
    \/ UserRemove

Spec == Init /\ [][Next]_vars

(***************************************************************************)
(* SpecServer: scan_and_sync against a server that sends group folders,    *)
(* events without a hash and names of its own choosing; the user removes   *)
(* paths.                                                                  *)
(***************************************************************************)
InitServer == SchedIdle /\ AppIdle /\ PassIdle

NextServer ==
    \/ StartPass
    \/ PullFailed
    \/ PullEmptyPullOnly
    \/ PullEmptyFull
    \/ PullBatch
    \/ ApplyServerEvent
    \/ UpdateCursor
    \/ ScanLocal
    \/ CheckDeletions
    \/ SortKeys
    \/ CheckPath
    \/ PushDone
    \/ ClearActive
    \/ UserRemove

SpecServer == InitServer /\ [][NextServer]_vars

(***************************************************************************)
(* SpecMove: scan_and_sync against a server that creates a file and moves  *)
(* it; the user removes paths.                                             *)
(***************************************************************************)
InitMove == SchedIdle /\ AppIdle /\ PassIdle

NextMove ==
    \/ StartPass
    \/ PullFailed
    \/ PullEmptyPullOnly
    \/ PullEmptyFull
    \/ PullBatch
    \/ ApplyMoveEvent
    \/ UpdateCursor
    \/ ScanLocal
    \/ CheckDeletions
    \/ SortKeys
    \/ CheckPath
    \/ PushDone
    \/ ClearActive
    \/ UserRemove

SpecMove == InitMove /\ [][NextMove]_vars

(***************************************************************************)
(* SpecGroup: the server has a group folder g and a file that it moves     *)
(* from the root into g; its events arrive in any order.                   *)
(***************************************************************************)
GroupEvents == { EvGroupRoot, EvFileA, EvMoveA }

ApplyGroupEvent == ApplyFrom(GroupEvents)

InitGroup == SchedIdle /\ AppIdle /\ PassIdle

NextGroup ==
    \/ StartPass
    \/ PullFailed
    \/ PullEmptyPullOnly
    \/ PullEmptyFull
    \/ PullBatch
    \/ ApplyGroupEvent
    \/ UpdateCursor
    \/ ScanLocal
    \/ CheckDeletions
    \/ SortKeys
    \/ CheckPath
    \/ PushDone
    \/ ClearActive

SpecGroup == InitGroup /\ [][NextGroup]_vars

(***************************************************************************)
(* SpecFolder: the server creates folder p and moves it to g.              *)
(***************************************************************************)
\* folder p was moved to g on the server; a folder has no hash
EvMoveP ==
    SyncEvent("move", "folder", ServerId(PathP),
              Some(FileData(Some(PathG), Some(PathG), None, None, None, None)))

FolderEvents == { EvFolderP, EvMoveP }

ApplyFolderEvent == ApplyFrom(FolderEvents)

InitFolder == SchedIdle /\ AppIdle /\ PassIdle

NextFolder ==
    \/ StartPass
    \/ PullFailed
    \/ PullEmptyPullOnly
    \/ PullEmptyFull
    \/ PullBatch
    \/ ApplyFolderEvent
    \/ UpdateCursor
    \/ ScanLocal
    \/ CheckDeletions
    \/ SortKeys
    \/ CheckPath
    \/ PushDone
    \/ ClearActive

SpecFolder == InitFolder /\ [][NextFolder]_vars

(***************************************************************************)
(* SpecBatch: the pull loop over whole responses, with a store whose       *)
(* writes can fail.                                                        *)
(***************************************************************************)
InitBatch == SchedIdle /\ AppIdle /\ PassIdle

NextBatch ==
    \/ StartPass
    \/ PullFailed
    \/ PullEmptyPullOnly
    \/ PullEmptyFull
    \/ PullWhole
    \/ ApplyInOrder
    \/ ApplyAbort
    \/ UpdateCursorOf
    \/ SetCursorFailed
    \/ ScanLocal
    \/ CheckDeletions
    \/ SortKeys
    \/ CheckPath
    \/ PushDone
    \/ ClearActive

SpecBatch == InitBatch /\ [][NextBatch]_vars

(***************************************************************************)
(* SpecScan: scan_local_files entry by entry, while the user writes and    *)
(* removes a file in the sync root.  The tree is one directory, so what    *)
(* WalkDir lists is one reading of that directory.                         *)
(***************************************************************************)
RootFiles == { PathA }

\* an entry WalkDir yields: the path and the file type of the directory entry
DirEntry(f, p) == [path |-> p, kind |-> f[p].kind]

\* WalkDir::new(root) with filter_entry(!is_ignored)  (sync.rs:680-683)
WalkBegin ==
    /\ PassOnly
    /\ pc = "scan" /\ phase = "scan"
    /\ walk' = { DirEntry(fs, p) : p \in DOMAIN scan_local_files(fs, db) }
    /\ local_files' = << >>
    /\ phase' = "walk"
    /\ UNCHANGED << download_failed, last_applied, response, scan_seen, upload, user_changes, passCall,
                    cursor, db, fs, cursor_read, batch, next_cursor, del_todo,
                    sorted_paths, new_paths, calls, scanned, quiet_prev, quiet_cur >>

\* the record scan_local_files makes of an entry  (sync.rs:697-734)
EntryRecord(f, d, e) ==
    LET existing == get_file(d, e.path)
        group == IF IsSome(existing) THEN Unwrap(existing).group_folder_id ELSE None
    IN IF e.kind = "file"
       THEN FileRecord(e.path, None, ComputeHash(f, e.path), f[e.path].mtime, group, FALSE)
       ELSE FileRecord(e.path, None, DIRECTORY, 0, group,
                       IF IsSome(existing) THEN Unwrap(existing).is_group_root ELSE FALSE)

\* `path.metadata().unwrap()` of a file entry finds the path  (sync.rs:700)
MetadataOk(f, e) == e.kind = "file" => e.path \in DOMAIN f

\* one iteration of the loop of scan_local_files  (sync.rs:680-735)
WalkEntry ==
    /\ PassOnly
    /\ pc = "scan" /\ phase = "walk"
    /\ \E e \in walk :
          /\ MetadataOk(fs, e)
          /\ local_files' = (e.path :> EntryRecord(fs, db, e)) @@ local_files
          /\ walk' = walk \ { e }
    /\ UNCHANGED << download_failed, last_applied, response, scan_seen, upload, user_changes, passCall,
                    phase, cursor, db, fs, cursor_read, batch, next_cursor, del_todo,
                    sorted_paths, new_paths, calls, scanned, quiet_prev, quiet_cur >>

\* `path.metadata().unwrap()` of a file entry whose path is gone: the worker
\* thread panics inside run; its locals, the store handle, the receiver and
\* the watcher are dropped and sync_active stays set  (sync.rs:700, 104-121)
WalkPanic ==
    /\ PassOnly
    /\ pc = "scan" /\ phase = "walk"
    /\ \E e \in walk : ~MetadataOk(fs, e)
    /\ pc' = "panicked"
    /\ phase' = "done"
    /\ active_passes' = active_passes - 1
    /\ walk' = {}
    /\ scan_seen' = None
    /\ upload' = None
    /\ local_files' = << >>
    /\ cursor_read' = 0
    /\ UNCHANGED << download_failed, last_applied, response, user_changes,
                    sync_active, has_local_changes, pass_kind, last_result,
                    cursor, db, fs, batch, next_cursor, del_todo,
                    sorted_paths, new_paths, calls, scanned, quiet_prev, quiet_cur >>

\* the walk is over; db_records is read  (sync.rs:587-588)
WalkEnd ==
    /\ PassOnly
    /\ pc = "scan" /\ phase = "walk" /\ walk = {}
    /\ del_todo' = get_all_files(db)
    /\ scanned' = TRUE
    /\ phase' = "deletions"
    /\ UNCHANGED << download_failed, last_applied, response, walk, scan_seen, upload, user_changes, passCall,
                    cursor, db, fs, cursor_read, batch, next_cursor, local_files,
                    sorted_paths, new_paths, calls, quiet_prev, quiet_cur >>

\* the user writes a file directly below the sync root
UserWriteRoot ==
    \E p \in RootFiles, c \in Contents, m \in Mtimes :
        /\ ~IsDir(fs, p)
        /\ ~(IsFile(fs, p) /\ fs[p] = File(c, m))
        /\ UserChange(WriteFile(fs, p, c, m))

InitScan == SchedIdle /\ AppIdle /\ PassIdle

NextScan ==
    \/ StartPass
    \/ PullFailed
    \/ PullEmptyPullOnly
    \/ PullEmptyFull
    \/ WalkBegin
    \/ WalkEntry
    \/ WalkPanic
    \/ WalkEnd
    \/ CheckDeletions
    \/ SortKeys
    \/ CheckPath
    \/ PushDone
    \/ ClearActive
    \/ UserWriteRoot
    \/ UserRemove

SpecScan == InitScan /\ [][NextScan]_vars

(***************************************************************************)
(* SpecAdopt: the push phase against a server whose event log is longer    *)
(* than one page, so that the adoption scan gets several responses.        *)
(***************************************************************************)
Response(events, next) == [events |-> events, next_cursor |-> next]

\* a full page of events that name no folder
FullPage == Response([i \in 1..SCAN_PAGE |-> EvDeleteP], SCAN_PAGE)

AdoptAnswers ==
    { << Response(<< EvFolderP >>, 1) >>,
      << Response(<< EvDeleteP >>, 1) >>,
      << FullPage, Response(<< EvFolderP >>, SCAN_PAGE + 1) >>,
      << FullPage, Response(<< EvDeleteP >>, SCAN_PAGE + 1) >>,
      << PullError >> }

AdoptOutcomes == { NoScan } \cup { [ok |-> FALSE, scan |-> a] : a \in AdoptAnswers }

CheckPathAdopt == CheckPathWith(AdoptOutcomes)

InitAdopt == SchedIdle /\ AppIdle /\ PassIdle

NextAdopt ==
    \/ StartPass
    \/ PullFailed
    \/ PullEmptyPullOnly
    \/ PullEmptyFull
    \/ ScanLocal
    \/ CheckDeletions
    \/ SortKeys
    \/ CheckPathAdopt
    \/ PushDone
    \/ ClearActive
    \/ UserMkdir
    \/ UserRemove

SpecAdopt == InitAdopt /\ [][NextAdopt]_vars

(***************************************************************************)
(* SpecPush: the push phase over a store that an earlier run left behind.  *)
(* The store is a file that outlives the process, and its id column is     *)
(* nullable (db.rs:28-37): a row can carry an id or none.  The remote      *)
(* delete can fail.                                                        *)
(***************************************************************************)
StoredRows ==
    { FileRecord(PathA, id, Sha256("A"), 1, None, FALSE) : id \in { None, Some(ServerId(PathA)) } }
      \cup
    { FileRecord(PathP, id, DIRECTORY, 0, None, FALSE) : id \in { None, Some(ServerId(PathP)) } }

StoreOf(rows) == [p \in { r.path : r \in rows } |-> CHOOSE r \in rows : r.path = p]

PushStores ==
    { StoreOf(rows) : rows \in { R \in SUBSET StoredRows :
                                   \A r1, r2 \in R : r1.path = r2.path => r1 = r2 } }

CheckDeletionsAny == CheckDeletionsWith(BOOLEAN)

InitPush ==
    /\ SchedIdle /\ AppIdle
    /\ db \in PushStores
    /\ phase = "done" /\ cursor = 0 /\ fs = << >> /\ cursor_read = 0 /\ batch = 0
    /\ next_cursor = 0 /\ local_files = << >> /\ del_todo = << >>
    /\ sorted_paths = << >> /\ new_paths = {} /\ calls = << >> /\ scanned = FALSE
    /\ user_changes = 0 /\ quiet_prev = "other" /\ quiet_cur = "other"
    /\ download_failed = FALSE /\ last_applied = None /\ response = None
    /\ walk = {} /\ scan_seen = None /\ upload = None

NextPush ==
    \/ StartPass
    \/ PullFailed
    \/ PullEmptyPullOnly
    \/ PullEmptyFull
    \/ ScanLocal
    \/ CheckDeletionsAny
    \/ SortKeys
    \/ CheckPath
    \/ PushDone
    \/ ClearActive
    \/ UserWriteRoot
    \/ UserMkdir
    \/ UserRemove

SpecPush == InitPush /\ [][NextPush]_vars

(***************************************************************************)
(* XynoxaClient::upload_file, request by request  (api.rs:348-577).        *)
(* A byte count is a u64; it is kept as its quotient and remainder by      *)
(* 2^20, which is the chunk size, so that 5 GiB stays within the integers  *)
(* of the checker.                                                         *)
(***************************************************************************)
CHUNK_SIZE_BYTES == 1048576

U64(mib, rem) == [mib |-> mib, rem |-> rem]

MAX_UPLOAD_BYTES == U64(5 * 1024, 0)

CHUNK_THRESHOLD_BYTES == U64(50, 0)

\* a > b on u64
Greater(a, b) == a.mib > b.mib \/ (a.mib = b.mib /\ a.rem > b.rem)

UploadRouteInclusive(file_size) ==
    IF ~Greater(MAX_UPLOAD_BYTES, file_size) THEN "too_large"
    ELSE IF ~Greater(CHUNK_THRESHOLD_BYTES, file_size) THEN "chunked"
    ELSE "multipart"

\* the two size tests of upload_file  (api.rs:359-371)
UploadRoute(file_size) ==
    IF Greater(file_size, MAX_UPLOAD_BYTES) THEN "too_large"
    ELSE IF Greater(file_size, CHUNK_THRESHOLD_BYTES) THEN "chunked"
    ELSE "multipart"

\* `((file_size as f64) / (CHUNK_SIZE_BYTES as f64)).ceil() as u64`; the
\* division by 2^20 is exact in f64 for the sizes below  (api.rs:454)
TotalChunks(file_size) == file_size.mib + (IF file_size.rem > 0 THEN 1 ELSE 0)

\* upload_file has read the metadata of a file of `size` bytes
UploadCall(size, at) ==
    [pc |-> at, size |-> size, requests |-> << >>, chunk_index |-> 0,
     remaining |-> 0, short |-> 0]

Request(op, index, total) == [op |-> op, index |-> index, total |-> total]

uploadRest == << phase, cursor, db, fs, cursor_read, batch, next_cursor,
                 local_files, del_todo, sorted_paths, calls, scanned,
                 user_changes, new_paths, quiet_prev, quiet_cur, download_failed,
                 last_applied, response, walk, scan_seen >>

UploadOnly == UNCHANGED << schedVars, appVars, uploadRest >>

\* api.rs:355-371
UploadEnter ==
    /\ UploadOnly
    /\ IsSome(upload) /\ Unwrap(upload).pc = "metadata"
    /\ upload' = Some([Unwrap(upload) EXCEPT !.pc = UploadRoute(Unwrap(upload).size)])

\* the multipart POST /api/upload  (api.rs:381-431)
MultipartSend ==
    /\ UploadOnly
    /\ IsSome(upload) /\ Unwrap(upload).pc = "multipart"
    /\ \E ok \in BOOLEAN :
          upload' = Some([Unwrap(upload) EXCEPT
                            !.requests = Append(@, Request("upload", 0, 0)),
                            !.pc = IF ok THEN "ok" ELSE "err"])

(***************************************************************************)
(* SpecRoute: upload_file for files of the sizes around its two limits.    *)
(***************************************************************************)
MaxDelta == 3

RouteSizes ==
    { U64(m, r) : m \in { 0, 1, 49, 50, 51, 5 * 1024 - 1, 5 * 1024, 5 * 1024 + 1 },
                  r \in 0..MaxDelta \cup (CHUNK_SIZE_BYTES - MaxDelta)..(CHUNK_SIZE_BYTES - 1) }

InitRoute ==
    /\ SchedIdle /\ AppIdle
    /\ phase = "done" /\ cursor = 0 /\ db = << >> /\ fs = << >> /\ cursor_read = 0
    /\ batch = 0 /\ next_cursor = 0 /\ local_files = << >> /\ del_todo = << >>
    /\ sorted_paths = << >> /\ new_paths = {} /\ calls = << >> /\ scanned = FALSE
    /\ user_changes = 0 /\ quiet_prev = "other" /\ quiet_cur = "other"
    /\ download_failed = FALSE /\ last_applied = None /\ response = None
    /\ walk = {} /\ scan_seen = None
    /\ upload \in { Some(UploadCall(size, "metadata")) : size \in RouteSizes }

NextRoute ==
    \/ UploadEnter
    \/ MultipartSend

SpecRoute == InitRoute /\ [][NextRoute]_vars

(***************************************************************************)
(* SpecChunk: upload_file_chunked for files a little above 50 MiB.  A read *)
(* of the file returns between one byte and what the buffer holds.         *)
(***************************************************************************)
MaxShortReads == 1  \* reads that return less than asked for, per upload

\* the number of bytes, for the sizes that fit
AsBytes(size) == size.mib * CHUNK_SIZE_BYTES + size.rem

ChunkSizes == { U64(50, 1), U64(50, CHUNK_SIZE_BYTES \div 2), U64(51, 0), U64(51, 1) }

\* what `file.read(&mut buffer)` can return with `remaining` bytes ahead:
\* 0 at the end of the file, else at most the buffer  (api.rs:509-512)
ReadResults(remaining, short) ==
    IF remaining = 0 THEN { 0 }
    ELSE { Min(remaining, CHUNK_SIZE_BYTES) } \cup
         (IF short < MaxShortReads
          THEN { n \in { 1, CHUNK_SIZE_BYTES \div 2 } : n < Min(remaining, CHUNK_SIZE_BYTES) }
          ELSE {})

\* POST /api/upload/chunk/start, then File::open  (api.rs:454-506)
ChunkStart ==
    /\ UploadOnly
    /\ IsSome(upload) /\ Unwrap(upload).pc = "chunked"
    /\ \E ok \in BOOLEAN :
          upload' = Some([Unwrap(upload) EXCEPT
                            !.requests = Append(@, Request("start", 0,
                                                           TotalChunks(Unwrap(upload).size))),
                            !.remaining = AsBytes(Unwrap(upload).size),
                            !.pc = IF ok THEN "read" ELSE "err"])

\* one iteration of the loop that reads data: a chunk is posted with the
\* bytes one read returned  (api.rs:508-541)
ChunkSend ==
    /\ UploadOnly
    /\ IsSome(upload) /\ Unwrap(upload).pc = "read"
    /\ LET u == Unwrap(upload)
       IN \E bytes_read \in ReadResults(u.remaining, u.short) \ { 0 }, ok \in BOOLEAN :
            upload' = Some([u EXCEPT
                              !.requests = Append(@, Request("chunk", u.chunk_index, 0)),
                              !.remaining = @ - bytes_read,
                              !.short = IF bytes_read < Min(u.remaining, CHUNK_SIZE_BYTES)
                                        THEN @ + 1 ELSE @,
                              !.chunk_index = IF ok THEN @ + 1 ELSE @,
                              !.pc = IF ok THEN "read" ELSE "err"])

\* the read returns 0: break  (api.rs:512-514)
ChunkEof ==
    /\ UploadOnly
    /\ IsSome(upload) /\ Unwrap(upload).pc = "read"
    /\ 0 \in ReadResults(Unwrap(upload).remaining, Unwrap(upload).short)
    /\ upload' = Some([Unwrap(upload) EXCEPT !.pc = "complete"])

\* POST /api/upload/chunk/complete  (api.rs:543-576)
ChunkComplete ==
    /\ UploadOnly
    /\ IsSome(upload) /\ Unwrap(upload).pc = "complete"
    /\ \E ok \in BOOLEAN :
          upload' = Some([Unwrap(upload) EXCEPT
                            !.requests = Append(@, Request("complete", 0, 0)),
                            !.pc = IF ok THEN "ok" ELSE "err"])

InitChunk ==
    /\ SchedIdle /\ AppIdle
    /\ phase = "done" /\ cursor = 0 /\ db = << >> /\ fs = << >> /\ cursor_read = 0
    /\ batch = 0 /\ next_cursor = 0 /\ local_files = << >> /\ del_todo = << >>
    /\ sorted_paths = << >> /\ new_paths = {} /\ calls = << >> /\ scanned = FALSE
    /\ user_changes = 0 /\ quiet_prev = "other" /\ quiet_cur = "other"
    /\ download_failed = FALSE /\ last_applied = None /\ response = None
    /\ walk = {} /\ scan_seen = None
    /\ upload \in { Some(UploadCall(size, "chunked")) : size \in ChunkSizes }

NextChunk ==
    \/ ChunkStart
    \/ ChunkSend
    \/ ChunkEof
    \/ ChunkComplete

SpecChunk == InitChunk /\ [][NextChunk]_vars

(***************************************************************************)
(* Properties                                                              *)
(***************************************************************************)

\* C1: the persisted cursor never decreases; a step of the worker changes it
\* only to the next_cursor of the batch just processed, and only when that
\* next_cursor is strictly greater than the cursor read before the pull
\* (and then it does write it).
CursorMonotone ==
    [][ /\ cursor' >= cursor
        /\ cursor' # cursor => cursor' = next_cursor' /\ next_cursor' > cursor_read
        /\ (phase = "apply" /\ phase' = "pull" /\ next_cursor' > cursor_read)
              => cursor' = next_cursor' ]_vars

\* a batch whose next_cursor lies below the stored cursor has been processed
\* and the stored cursor was kept
CursorKeptOverLowerNext ==
    pc = "scan" /\ phase = "pull" /\ next_cursor > 0 /\ next_cursor < cursor

\* C2: no FileSystemEvent command in the worker's channel stems from a write
\* the worker itself made during a pass.
NoWorkerWriteInChannel ==
    \A i \in 1..Len(receiver) :
        receiver[i].cmd = "FileSystemEvent" => receiver[i].event.origin # "worker"

\* C3: sync_active is true in every state in which a pass executes and false
\* whenever the worker computes its timeout or waits on the channel, whatever
\* the last pass returned.
ActiveFlagBracketsPass ==
    /\ InPass => sync_active
    /\ pc \in { "loop", "recv" } => ~sync_active

\* the worker waits on the channel after a pass that returned an error
WaitingAfterFailedPass ==
    pc = "recv" /\ last_result = "err" /\ ~sync_active

\* C4: at most one scan_and_sync call is in progress, and no command leaves
\* the channel while a pass is running.
AtMostOnePass ==
    /\ [](active_passes <= 1 /\ (active_passes = 1 <=> pc = "scan"))
    /\ [][Len(receiver') < Len(receiver) => (pc = "recv" /\ active_passes = 0)]_vars

\* a command sits in the channel while a pass is running
CommandWaitsDuringPass ==
    pc = "scan" /\ active_passes = 1 /\ receiver # << >>

\* C5: no SyncHandle is created while one is stored in the application state.
NoSecondWorker == ~created_while_stored

\* C6: a pass triggered by filesystem events runs only when DEBOUNCE_DURATION
\* seconds have elapsed since the last FileSystemEvent the worker received,
\* and receiving a FileSystemEvent sets pending_sync and restarts the clock.
DebounceQuiescence ==
    /\ []((InPass /\ pass_kind = "event") => fse_age = Some(DEBOUNCE_DURATION))
    /\ [][(Len(receiver') < Len(receiver) /\ Head(receiver).cmd = "FileSystemEvent")
            => (pending_sync' /\ last_fs_event' = Some(0) /\ pc' = "loop")]_vars

\* a debounced pass runs after a full window of waiting
DebouncedPassRuns ==
    pc = "scan" /\ pass_kind = "event" /\ has_local_changes
    /\ waited = DEBOUNCE_DURATION /\ fse_age = Some(DEBOUNCE_DURATION)

\* C7: a pass started by a timeout is pull-only exactly when nothing was
\* pending, and then the worker had waited PERIODIC_SYNC_INTERVAL seconds
\* without a command; when a change was pending the pass is full; in both
\* cases nothing is pending while the pass runs.
PeriodicPullOnly ==
    (InPass /\ pass_kind \in { "event", "periodic" }) =>
        /\ has_local_changes = pending_at_timeout
        /\ pass_kind = "periodic" <=> ~pending_at_timeout
        /\ ~pending_sync
        /\ ~pending_at_timeout => waited = PERIODIC_SYNC_INTERVAL

\* a periodic pull-only pass runs
PeriodicPassRuns ==
    pc = "scan" /\ pass_kind = "periodic" /\ ~has_local_changes
    /\ waited = PERIODIC_SYNC_INTERVAL

\* C8: a pull-only pass never scans the tree and makes no push call; while it
\* runs, the store's table changes only in the application of a pulled event.
PullOnlyNeverPushes ==
    /\ []((InPass /\ ~has_local_changes) =>
             (calls = << >> /\ ~scanned /\ phase \in { "pull", "apply", "done" }))
    /\ [][(pc = "scan" /\ ~has_local_changes /\ db' # db)
            => (phase = "apply" /\ batch > 0)]_vars

\* a pull-only pass returned Ok although the tree holds a path without a record
PullOnlyLeavesLocalChange ==
    /\ pc = "returned" /\ ~has_local_changes /\ last_result = "ok"
    /\ \E p \in DOMAIN fs : p \notin DOMAIN db

NoMutatingCall == \A i \in 1..Len(calls) : ~calls[i].sent

NewTree == { PathP, PathQ, PathR, PathFile }

CreateCalls == SelectSeq(calls, LAMBDA c : c.op \in { "create_folder", "upload" })

\* C10: in the create loop no path comes before one of its ancestors; a call
\* for a new path whose parent is new too comes after the parent's
\* create_folder call and, when that call obtained an id, carries it; for
\* the new tree p/q/r/file.txt, when every call succeeds, the calls are
\* exactly create_folder(p, none), create_folder(q, id of p),
\* create_folder(r, id of q), upload(folder_id = id of r).
ParentBeforeChild ==
    /\ \A i, j \in 1..Len(sorted_paths) :
          (i # j /\ Under(sorted_paths[j], sorted_paths[i])) => i < j
    /\ \A j \in 1..Len(calls) :
          (/\ calls[j].op \in { "create_folder", "upload" }
           /\ calls[j].path \in new_paths
           /\ Parent(calls[j].path) \in new_paths)
          => \E i \in 1..(j - 1) :
                /\ calls[i].op = "create_folder"
                /\ calls[i].path = Parent(calls[j].path)
                /\ (calls[i].ok /\ calls[j].sent) => calls[j].parent = calls[i].id
    /\ (/\ phase = "creates" /\ sorted_paths = << >>
        /\ DOMAIN local_files = NewTree /\ new_paths = NewTree
        /\ \A i \in 1..Len(CreateCalls) : CreateCalls[i].ok)
       => CreateCalls =
            << Call("create_folder", PathP, None, TRUE, TRUE, Some(ServerId(PathP))),
               Call("create_folder", PathQ, Some(ServerId(PathP)), TRUE, TRUE,
                    Some(ServerId(PathQ))),
               Call("create_folder", PathR, Some(ServerId(PathQ)), TRUE, TRUE,
                    Some(ServerId(PathR))),
               Call("upload", PathFile, Some(ServerId(PathR)), TRUE, TRUE,
                    Some(ServerId(PathFile))) >>

\* the new tree p/q/r/file.txt has been pushed with four successful calls
NewTreePushed ==
    /\ pc = "scan" /\ phase = "creates" /\ sorted_paths = << >>
    /\ DOMAIN local_files = NewTree /\ new_paths = NewTree
    /\ Len(calls) = Cardinality(NewTree)
    /\ \A i \in 1..Len(calls) : calls[i].ok /\ calls[i].sent

\* C11: when the deletion loop of a push visits a directory record with
\* is_group_root whose path the scan did not find, the directory exists
\* afterwards, no remote call is made and the record stays as it was; no
\* delete_folder call of a pass names the group folder.
GroupRootRestored ==
    /\ [][(/\ pc = "scan" /\ phase = "deletions" /\ del_todo # << >>
           /\ del_todo' = Tail(del_todo)
           /\ Head(del_todo).is_group_root
           /\ Head(del_todo).hash = DIRECTORY
           /\ Head(del_todo).path \notin DOMAIN local_files)
          => (/\ IsDir(fs', Head(del_todo).path)
              /\ calls' = calls
              /\ get_file(db', Head(del_todo).path) = Some(Head(del_todo)))]_vars
    /\ [](\A i \in 1..Len(calls) :
             ~(calls[i].op = "delete_folder" /\ calls[i].id = Some(ServerId(PathG))))

\* the loop has gone past the record of a group folder the user had removed
GroupRootWasRestored ==
    /\ pc = "scan" /\ phase = "deletions" /\ del_todo = << >>
    /\ PathG \in DOMAIN db /\ db[PathG].is_group_root
    /\ PathG \notin DOMAIN local_files
    /\ IsDir(fs, PathG)

\* the name the conflict backup of file.txt is said to get
AppendedBackupPath == PathFile \o << "." >> \o ConflictBackup

\* C12: when the event about p/q/r/file.txt is applied while the local file
\* has another hash than the remote one and a later mtime than its record,
\* and the download succeeds, file.txt.conflict_backup holds the bytes the
\* file had before and file.txt holds what was downloaded.
ConflictBackupKeepsName ==
    [][(/\ pc = "scan" /\ phase = "apply" /\ batch' = batch - 1
        /\ IsFile(fs, PathFile)
        /\ ComputeHash(fs, PathFile) # Unwrap(Unwrap(EvFileUpdate.data).hash)
        /\ fs[PathFile].mtime >
               (IF PathFile \in DOMAIN db THEN db[PathFile].modified_at ELSE 0)
        /\ last_applied' = Some([event |-> EvFileUpdate, download_err |-> FALSE]))
       => (/\ IsFile(fs', AppendedBackupPath)
           /\ fs'[AppendedBackupPath].content = fs[PathFile].content
           /\ PathFile \in DOMAIN db'
           /\ db'[PathFile].hash = ComputeHash(fs', PathFile))]_vars

\* the outcome C13 names: a is gone, g/n is a file with the event's hash,
\* the record with the file's id is at g/n and none is at a
MoveDone(f, d) ==
    /\ PathA \notin DOMAIN f
    /\ IsFile(f, PathN)
    /\ ComputeHash(f, PathN) = Unwrap(Unwrap(EvMoveA.data).hash)
    /\ PathN \in DOMAIN d
    /\ d[PathN].id = Some(EvMoveA.entity_id)
    /\ d[PathN].hash = ComputeHash(f, PathN)
    /\ PathA \notin DOMAIN d

\* a step that applies the move of a to g/n while the record of a has the id
MoveEventApplied ==
    /\ pc = "scan" /\ phase = "apply" /\ batch' = batch - 1
    /\ IsSome(last_applied') /\ Unwrap(last_applied').event = EvMoveA
    /\ PathA \in DOMAIN db /\ db[PathA].id = Some(EvMoveA.entity_id)

UploadsOf(p) == { i \in 1..Len(calls) : calls[i].op = "upload" /\ calls[i].path = p }

\* C14: when the create loop of a full pass visits a file without a record,
\* it makes one upload call for it; when the call succeeds, the record of
\* the path has the id the server returned, the SHA-256 of the file's
\* content and the file's mtime, and when it fails no record is written.
\* No pass makes two upload calls for a path that had no record.
LocalCreateUploadsOnce ==
    /\ [][(/\ pc = "scan" /\ phase = "creates" /\ sorted_paths # << >>
           /\ sorted_paths' = Tail(sorted_paths)
           /\ Head(sorted_paths) \notin DOMAIN db
           /\ IsFile(fs, Head(sorted_paths)))
          => (/\ Len(calls') = Len(calls) + 1
              /\ LET p == Head(sorted_paths)
                     c == calls'[Len(calls')]
                 IN /\ c.op = "upload" /\ c.path = p /\ c.sent
                    /\ c.ok => /\ c.id = Some(ServerId(p))
                               /\ get_file(db', p) # None
                               /\ db'[p].id = c.id
                               /\ db'[p].hash = Sha256(fs[p].content)
                               /\ db'[p].modified_at = fs[p].mtime
                    /\ ~c.ok => db' = db)]_vars
    /\ [](\A p \in new_paths : Cardinality(UploadsOf(p)) <= 1)

\* the create loop has uploaded a new file and recorded it
NewFileUploaded ==
    /\ pc = "scan" /\ phase = "creates"
    /\ PathFile \in new_paths
    /\ \E i \in UploadsOf(PathFile) : calls[i].ok
    /\ PathFile \in DOMAIN db
    /\ db[PathFile].id = Some(ServerId(PathFile))
    /\ db[PathFile].hash = ComputeHash(fs, PathFile)

\* C15: every record's hash is the marker "directory" or the SHA-256 digest
\* of some content, never the empty string.
RecordHashesReal ==
    \A p \in DOMAIN db :
        \/ db[p].hash = DIRECTORY
        \/ \E c \in Contents : db[p].hash = Sha256(c)

\* the components of a path
PathSegments(p) == { FileName(a) : a \in SelfAndAncestors(p) }

\* C16: every record's path is relative to the root, has no "." or ".."
\* component and no component that is_ignored names.
RecordPathsInsideRoot ==
    \A p \in DOMAIN db :
        /\ p # << >>
        /\ Head(p) # "/"
        /\ \A seg \in PathSegments(p) :
              /\ seg \notin { << "." >>, << ".", "." >> }
              /\ ~is_ignored(seg)

\* C17: the pass that follows a pass in which an upload or a folder creation
\* failed is a full pass, so that the failed item is attempted again.
FailedPushRetriedByNextPass ==
    [][(last_result = "unpushed" /\ pc # "scan" /\ pc' = "scan")
          => has_local_changes']_vars

\* C18: a batch in which the download of a file event failed is pulled again
\* by a later pass: the stored cursor is not moved past it.
FailedDownloadPulledAgain ==
    [][(pc = "scan" /\ phase = "apply" /\ batch = 0 /\ download_failed)
          => cursor' = cursor]_vars

\* C19: the events of a batch are applied in the order of the response; the
\* stored cursor changes only after the last event of a batch; a pass that
\* returns in the middle of a batch leaves the cursor as it was read before
\* the batch.
BatchThenCursor ==
    /\ [][(phase = "apply" /\ phase' = "apply" /\ batch' = batch - 1)
            => /\ IsSome(last_applied')
               /\ Unwrap(last_applied').event
                    = Unwrap(response).events[Len(Unwrap(response).events) - batch + 1]]_vars
    /\ [][cursor' # cursor
            => /\ phase = "apply" /\ batch = 0
               /\ cursor' = Unwrap(response).next_cursor]_vars
    /\ [][(phase = "apply" /\ phase' = "done")
            => cursor' = cursor /\ cursor = cursor_read]_vars

\* a response with two events whose order matters is done: folder p was
\* created and then deleted, and a larger cursor is about to be stored
TwoEventsAppliedInOrder ==
    /\ pc = "scan" /\ phase = "apply" /\ batch = 0
    /\ IsSome(response)
    /\ Unwrap(response).events = << EvFolderP, EvDeleteP >>
    /\ Unwrap(response).next_cursor > cursor
    /\ ~IsDir(fs, PathP)
    /\ get_file(db, PathP) = None

\* C20: a failed pull ends the pass with Err: the stored cursor, the store
\* and the tree are as before the call, and the push phase has not run.
PullFailureAborts ==
    [][PullFailed
          => /\ cursor' = cursor /\ db' = db /\ fs' = fs
             /\ ~scanned /\ calls = << >>
             /\ pc' = "returned" /\ last_result' = "err"]_vars

\* a pull failed after an earlier batch of the same pass had been applied
PullFailedAfterBatch ==
    /\ pc = "returned" /\ last_result = "err"
    /\ cursor > 0

\* C21: nothing but a disconnected channel ends the worker.  The channel
\* cannot disconnect while the worker lives (the watcher it owns holds a
\* sender), so the worker thread is never ended.
WorkerNeverEnds == pc # "panicked"

\* the events of all responses of an adoption scan that match a folder
StreamMatches(answers, name, parent) ==
    LET read == { k \in 1..Len(answers) : ~IsPullError(answers[k]) }
        events == UNION { { answers[k].events[i] : i \in 1..Len(answers[k].events) } :
                          k \in read }
    IN { e \in events : AdoptionMatch(e, name, parent) }

\* C22: when create_folder failed and the adoption scan read the stream
\* without error, the folder's record gets the id of a matching event if any
\* batch of the stream holds one, and else the call fails and the store is
\* left as it was.
AdoptionReadsWholeStream ==
    [][(IsSome(scan_seen') /\ \A k \in 1..Len(Unwrap(scan_seen')) :
                                  ~IsPullError(Unwrap(scan_seen')[k]))
          => LET call == calls'[Len(calls')]
                 hits == StreamMatches(Unwrap(scan_seen'), FileName(call.path), call.parent)
             IN IF hits # {}
                THEN /\ call.ok
                     /\ IsSome(get_file(db', call.path))
                     /\ Unwrap(get_file(db', call.path)).id \in { Some(e.entity_id) : e \in hits }
                ELSE ~call.ok /\ db' = db]_vars

\* C23: a file larger than 5 GiB is rejected and no request is made; a file
\* larger than 50 MiB and at most 5 GiB goes to the chunked protocol; a file
\* of at most 50 MiB, empty ones included, is sent with one multipart upload.
UploadSizePolicy ==
    \A u \in { Unwrap(upload) } :
        LET over(m) == u.size.mib > m \/ (u.size.mib = m /\ u.size.rem > 0)
        IN u.pc # "metadata"
           => /\ over(5120) <=> (u.pc = "too_large")
              /\ u.pc = "too_large" => u.requests = << >>
              /\ (over(50) /\ ~over(5120)) <=> (u.pc = "chunked")
              /\ ~over(50) <=> (u.pc \in { "multipart", "ok", "err" })
              /\ u.pc \in { "ok", "err" } => u.requests = << Request("upload", 0, 0) >>

\* a file of 5 GiB + 1 byte has been rejected
OneByteOverLimitRejected ==
    /\ IsSome(upload)
    /\ Unwrap(upload).size = U64(5120, 1)
    /\ Unwrap(upload).pc = "too_large"

\* the requests of the followed upload with operation op
RequestsOf(op) ==
    LET reqs == Unwrap(upload).requests
    IN { i \in 1..Len(reqs) : reqs[i].op = op }

\* C28: when complete is called, the chunk requests made are as many as the
\* totalChunks that start announced, whatever the reads of the file returned.
ChunksAsAnnounced ==
    (IsSome(upload) /\ RequestsOf("complete") # {})
        => Cardinality(RequestsOf("chunk")) = Unwrap(upload).requests[1].total

\* C24: a change the user makes while a pass is in progress reaches a later
\* full pass without a further filesystem event: when the watcher takes the
\* notification of a relevant user change during a pull-only pass, which does
\* not look at the tree, the change is queued for the worker.
UserEditDuringPassQueued ==
    [][(/\ notifier # << >>
        /\ notifier' = Tail(notifier)
        /\ Head(notifier).origin = "user"
        /\ Head(notifier).kind # "access"
        /\ IsRelevant(Head(notifier).paths)
        /\ pc = "scan" /\ ~has_local_changes)
          => receiver' = Append(receiver, FileSystemEvent(Head(notifier)))]_vars

\* C25: applying again an event that has just been applied, with its
\* download done and the content the event names delivered, changes neither
\* the tree nor any record.
ReplayChangesNothing ==
    [][(/\ IsSome(last_applied) /\ ~Unwrap(last_applied).download_err
        /\ phase = "apply" /\ batch' = batch - 1
        /\ IsSome(last_applied') /\ ~Unwrap(last_applied').download_err
        /\ Unwrap(last_applied').event = Unwrap(last_applied).event
        /\ (Unwrap(last_applied).event = EvFileUpdate
              => ComputeHash(fs, PathFile) = Sha256("A")))
          => db' = db /\ fs' = fs]_vars

\* C26: every record whose parent directory has a record carries the group
\* the parent hands down: the parent's id when the parent is a group root,
\* the parent's group_folder_id otherwise.
ChildInheritsGroup ==
    \A p \in DOMAIN db :
        Parent(p) \in DOMAIN db
          => db[p].group_folder_id =
                 (IF db[Parent(p)].is_group_root THEN db[Parent(p)].id
                  ELSE db[Parent(p)].group_folder_id)

\* C27: the parent of every directory record that is no group root is the
\* sync root or has a directory record itself.
DirectoryParentRecorded ==
    \A p \in DOMAIN db :
        (db[p].hash = DIRECTORY /\ ~db[p].is_group_root)
          => \/ Parent(p) = << >>
             \/ /\ Parent(p) \in DOMAIN db
                /\ db[Parent(p)].hash = DIRECTORY

\* C29: the deletion step for a row that has an id, is absent from the local
\* scan and is no group root sends delete_folder(id) for a directory and
\* soft_delete_file(id) for a file, and removes the row whatever the call
\* returned; a row without an id is removed and nothing is sent.
PushDeletionsRemoveRecord ==
    [][(/\ phase = "deletions" /\ del_todo # << >> /\ del_todo' = Tail(del_todo)
        /\ Head(del_todo).path \notin DOMAIN local_files
        /\ ~Head(del_todo).is_group_root)
         => LET db_rec == Head(del_todo)
            IN /\ db_rec.path \notin DOMAIN db'
               /\ IF IsSome(db_rec.id)
                  THEN /\ Len(calls') = Len(calls) + 1
                       /\ SubSeq(calls', 1, Len(calls)) = calls
                       /\ calls'[Len(calls')].op =
                              (IF db_rec.hash = DIRECTORY THEN "delete_folder"
                               ELSE "soft_delete_file")
                       /\ calls'[Len(calls')].id = db_rec.id
                       /\ calls'[Len(calls')].sent
                  ELSE calls' = calls]_vars

\* C29 witness: the deletion step has removed the row of directory p although
\* delete_folder failed, and no other request was sent.
RowRemovedAfterFailedDelete ==
    /\ phase = "deletions" /\ del_todo = << >>
    /\ db = << >>
    /\ Len(calls) = 1
    /\ calls[1].op = "delete_folder" /\ ~calls[1].ok
    /\ calls[1].id = Some(ServerId(PathP))

SentCount(cs) == Cardinality({ i \in 1..Len(cs) : cs[i].sent })

PullLoopAdvances ==
    [][(phase = "apply" /\ batch = 0 /\ phase' = "pull") => cursor' > cursor_read]_vars

\* C32: every record of the store carries a server id.
EveryRecordHasId == \A p \in DOMAIN db : IsSome(db[p].id)

\* C32 witness: a request of the push phase failed and left no record for
\* its path, while the store holds other records.
FailedPushLeftNoRecord ==
    /\ db # << >>
    /\ \E i \in 1..Len(calls) :
          /\ calls[i].op \in { "upload", "create_folder" }
          /\ calls[i].sent /\ ~calls[i].ok
          /\ calls[i].path \notin DOMAIN db

\* C33: no two records of the store carry the same server id.
IdNamesOneRecord ==
    \A p, q \in DOMAIN db :
        (IsSome(db[p].id) /\ db[p].id = db[q].id) => p = q

\* C34: once the delete event of folder p has been applied to a store that
\* records p as a directory, no record lies at or under p.
DeletedFolderLeavesNoRecord ==
    [][(/\ phase = "apply" /\ batch' = batch - 1
        /\ IsSome(last_applied') /\ Unwrap(last_applied').event = EvDeleteP
        /\ PathP \in DOMAIN db
        /\ db[PathP].id = Some(ServerId(PathP)) /\ db[PathP].hash = DIRECTORY)
          => \A q \in DOMAIN db' : ~Under(q, PathP)]_vars

\* C35: as long as the user has changed nothing in the tree, the push phase
\* sends no remote delete.
NoRemoteDeleteWithoutUser ==
    user_changes = 0
      => \A i \in 1..Len(calls) : calls[i].op \notin { "soft_delete_file", "delete_folder" }

\* C36: every upload request for a file below a directory of the sync root
\* carries the server id of that directory as its folder_id.
NestedUploadNamesParent ==
    \A i \in 1..Len(calls) :
        (calls[i].op = "upload" /\ calls[i].sent /\ Parent(calls[i].path) # << >>)
          => calls[i].parent = Some(ServerId(Parent(calls[i].path)))

\* C37: once the handle is dropped and the channel is empty, the worker's
\* recv_timeout reports the disconnect: the worker starts no further pass.
DroppedHandleStopsWorker ==
    [][(~IsSome(sync_engine) /\ pc = "recv" /\ receiver = << >>) => pc' # "scan"]_vars

\* C38: when the event about p/q/r/file.txt finds a conflict and the local
\* file is renamed to its backup path, no file is at that path yet.
BackupOverwritesNothing ==
    [][(/\ pc = "scan" /\ phase = "apply" /\ batch' = batch - 1
        /\ IsSome(last_applied') /\ Unwrap(last_applied').event = EvFileUpdate
        /\ IsFile(fs, PathFile)
        /\ ComputeHash(fs, PathFile) # Unwrap(Unwrap(EvFileUpdate.data).hash)
        /\ fs[PathFile].mtime >
               (IF PathFile \in DOMAIN db THEN db[PathFile].modified_at ELSE 0))
       => WithExtension(PathFile, ConflictBackup) \notin DOMAIN fs]_vars

\* C39: when the move of folder p to g is applied while the store records p
\* as a directory with the folder's id and the rename succeeds, the store
\* then records g as a directory with that id, and no download was tried.
FolderMoveKeepsRecord ==
    [][(/\ pc = "scan" /\ phase = "apply" /\ batch' = batch - 1
        /\ IsSome(last_applied') /\ Unwrap(last_applied').event = EvMoveP
        /\ PathP \in DOMAIN db
        /\ db[PathP].id = Some(ServerId(PathP)) /\ db[PathP].hash = DIRECTORY
        /\ \A q \in DOMAIN db : db[q].id = db[PathP].id => q = PathP
        /\ Rename(fs, PathP, PathG).ok)
       => /\ PathG \in DOMAIN db'
          /\ db'[PathG].hash = DIRECTORY
          /\ db'[PathG].id = Some(ServerId(PathP))
          /\ ~Unwrap(last_applied').download_err]_vars

\* C40: the worker starts a pass again and again, whatever the user does.
PassAlwaysComes == []<>(pc = "scan")

====
